---- MODULE Spec2Model ----
(***************************************************************************)
(* Model of the query evaluator of querytgdb/utils/parser.py: get_tf_data, *)
(* get_suffix, get_tf (the stack evaluation of AND / OR / NOT over         *)
(* TargetFrame tables) and parse_query.                                    *)
(*                                                                         *)
(* A TargetFrame is modelled as a record                                   *)
(*   rows          the row index (target gene ids)                         *)
(*   cols          the column labels, records [tf, an, attr]; tf is the    *)
(*                 level-0 label: the query name plus the suffixes merge   *)
(*                 appended to it                                          *)
(*   order         the column labels in the order of the column index      *)
(*   cell          the non-missing cells: a function on the <<row, col>>   *)
(*                 pairs that hold a value (a missing cell, NaN, is a pair *)
(*                 outside its domain)                                     *)
(*   include       the TargetFrame metadata field of that name             *)
(*   filter_string the metadata field, as the sequence of the fragments    *)
(*                 the code concatenates                                   *)
(***************************************************************************)
EXTENDS Integers, Sequences, FiniteSets, TLC

VARIABLES tf_filter_list, stack, stack2, dn, uuid, last, tokens, pc, result, result2,
          lastmod, qres, anno, lock, task, warned, failed, readers, text, parsed, outcome,
          heap, mstack, mpc, mbefore, cache, cached, meta,
          cfile, cview, cgot, gfile, glists, gmerged

vars == <<tf_filter_list, stack, stack2, dn, uuid, last, tokens, pc, result, result2,
          lastmod, qres, anno, lock, task, warned, failed, readers, text, parsed, outcome,
          heap, mstack, mpc, mbefore, cache, cached, meta,
          cfile, cview, cgot, gfile, glists, gmerged>>

\* the state of a query and of its result
queryvars == <<tf_filter_list, stack, stack2, dn, uuid, last, tokens, pc, result, result2,
               lastmod, qres>>

\* the annotation cache, its loader thread and the threads that read it
annovars == <<anno, lock, task, warned, failed, readers>>

\* a query text, its parse and the outcome of parse_query
exprvars == <<text, parsed, outcome>>

\* one call of get_mod: the objects it reads and creates (heap[1] is its
\* argument df), its stack of masks, its position, and df as it was at the call
getmodvars == <<heap, mstack, mpc, mbefore>>

\* the files under cache_path, the outcome of get_query_result(cache_path=...)
\* and the metadata and stats of the call with the query
cachevars == <<cache, cached, meta>>

\* the cache file of a view, and the requests that call cache_view for it:
\* their position and what they got
viewvars == <<cfile, cview, cgot>>

\* an uploaded file of gene lists, the user lists read from it, and their
\* merge with a network
listvars == <<gfile, glists, gmerged>>

\* the variables the evaluation of a query by steps and the annotation cache
\* leave alone
restvars == <<exprvars, getmodvars, cachevars, viewvars, listvars>>

\* the variables the evaluation of AND / OR / NOT over gene names leaves alone
modvars == <<lastmod>>

\* the outcome of get_query_result
qrvars == <<qres>>

(***************************************************************************)
(* Bounds of the model.                                                    *)
(***************************************************************************)
\* the number of tokens of a query: the strings of its parse (gene names,
\* 'not', 'and', 'or', and the key, operator and value of a modifier)
MaxTokens == 7
\* the number of tokens of a query handed to get_query_result
MaxQueryTokens == 4
\* the number of objects of a call of get_mod: its argument and the masks
MaxHeap == 5
\* the number of lines of an uploaded file of gene lists
MaxLines == 4

(***************************************************************************)
(* The database the evaluator reads (Analysis, Interaction, Regulation).   *)
(*   TF1: analysis 1, binding data only, targets A, B                      *)
(*   TF2: analysis 2, binding data only, target C                          *)
(*   TF3: analysis 3 with regulation records, targets A, B, C (C has an    *)
(*        interaction but no regulation record); analysis 4 without,       *)
(*        target A                                                         *)
(* p_value and foldchange are kept as integers (thousandths).              *)
(***************************************************************************)
AnalysisTF == (1 :> "TF1") @@ (2 :> "TF2") @@ (3 :> "TF3") @@ (4 :> "TF3")

Interaction ==
  { <<"A", 1>>, <<"B", 1>>, <<"C", 2>>, <<"A", 3>>, <<"B", 3>>, <<"C", 3>>, <<"A", 4>> }

Regulation ==
  { [analysis |-> 3, target |-> "A", p_value |-> 200, foldchange |-> 500],
    [analysis |-> 3, target |-> "B", p_value |-> 10, foldchange |-> 2000] }

\* AnalysisData: the (analysis, key, value) metadata records
AnalysisData ==
  { <<1, "EXPERIMENT_TYPE", "CHIPSEQ">>, <<2, "EXPERIMENT_TYPE", "CHIPSEQ">>,
    <<3, "EXPERIMENT_TYPE", "EXPRESSION">>, <<4, "EXPERIMENT_TYPE", "CHIPSEQ">> }

\* the gene names a query may use; X has no analysis, tf1 is TF1 in lower case
QueryNames == {"TF1", "TF2", "TF3", "X"}

\* the tf_filter_list values a caller passes: None, or a list of names
NoneList == [given |-> FALSE, names |-> {}]
FilterLists == { NoneList, [given |-> TRUE, names |-> {"tf1", "TF3"}] }

\* and a list that names only a gene without analyses
FilterListsAll == FilterLists \cup { [given |-> TRUE, names |-> {"X"}] }

\* str.upper / re.I on the names of the model
Upper(s) == CASE s = "tf1" -> "TF1" [] s = "tf2" -> "TF2" [] s = "tf3" -> "TF3" [] s = "x" -> "X" [] OTHER -> s

\* np.nan as the analysis level of the placeholder column of an empty frame
NaNAnalysis == 0

\* cell values
Plus == [kind |-> "str", num |-> 0]
Num(n) == [kind |-> "num", num |-> n]

Col(tf, an, attr) == [tf |-> tf, an |-> an, attr |-> attr]
Label(name) == [name |-> name, sfx |-> << >>]

Range(s) == {s[i] : i \in DOMAIN s}

\* TargetFrame.__init__: include defaults to True, filter_string to ''
TargetFrame(rows, order, cell) ==
  [rows |-> rows, cols |-> Range(order), order |-> order, cell |-> cell,
   include |-> TRUE, filter_string |-> << >>]

\* DataFrame.empty: some axis has length 0
Empty(df) == df.rows = {} \/ df.cols = {}

\* x.notna() for the cell at (r, c)
NotNa(df, r, c) == <<r, c>> \in DOMAIN df.cell

\* the (level 0, level 1) groups of the columns
Group(c) == <<c.tf, c.an>>

\* the position of an attribute among the value columns of the long frame
\* (EDGE is inserted at 2, Pvalue and Log2FC come from reg)
AttrPos(attr) == CASE attr = "EDGE" -> 1 [] attr = "Pvalue" -> 2 [] OTHER -> 3

\* pivot, swaplevel and sort_index(level=0, sort_remaining=False): the columns
\* by analysis, and within an analysis in the order of the value columns
RECURSIVE PivotOrder(_)
PivotOrder(cols) ==
  IF cols = {} THEN << >>
  ELSE LET c == CHOOSE x \in cols : \A y \in cols :
                  \/ x.an < y.an
                  \/ x.an = y.an /\ AttrPos(x.attr) <= AttrPos(y.attr)
       IN <<c>> \o PivotOrder(cols \ {c})

(***************************************************************************)
(* get_tf_data: the table of one transcription factor.                     *)
(***************************************************************************)
get_tf_data(query, filter_list) ==
  LET allowed == \/ ~filter_list.given
                 \/ \E t \in filter_list.names : Upper(t) = Upper(query)
      analyses == IF allowed
                  THEN {a \in DOMAIN AnalysisTF : Upper(AnalysisTF[a]) = Upper(query)}
                  ELSE {}
      df == {i \in Interaction : i[2] \in analyses}
      reg == {r \in Regulation : r.analysis \in analyses}
      regAnalyses == {r.analysis : r \in reg}
      \* the long frame after insert('EDGE', '+'), the left merge with reg and
      \* the reset of EDGE for the analyses that have regulation records
      edge == {i \in df : i[2] \notin regAnalyses}
      regOf(i) == {r \in reg : r.analysis = i[2] /\ r.target = i[1]}
      hasReg == {i \in df : regOf(i) # {}}
      label == Label(query)
      cellSet == {<<i[1], Col(label, i[2], "EDGE")>> : i \in edge}
                 \cup {<<i[1], Col(label, i[2], "Pvalue")>> : i \in hasReg}
                 \cup {<<i[1], Col(label, i[2], "Log2FC")>> : i \in hasReg}
      value(p) == IF p[2].attr = "EDGE" THEN Plus
                  ELSE LET r == CHOOSE r \in reg : r.analysis = p[2].an /\ r.target = p[1]
                       IN IF p[2].attr = "Pvalue" THEN Num(r.p_value) ELSE Num(r.foldchange)
      pivot == TargetFrame({i[1] : i \in df},
                           \* dropna(axis=1, how='all'): only columns with a value
                           PivotOrder({p[2] : p \in cellSet}),
                           [p \in cellSet |-> value(p)])
      empty == TargetFrame({}, <<Col(label, NaNAnalysis, "EDGE")>>, << >>)
  IN [(IF df # {} THEN pivot ELSE empty) EXCEPT !.filter_string = <<query>>]

(***************************************************************************)
(* get_all_tf: the table of all transcription factors at once, for the     *)
(* keywords andalltfs, oralltfs and multitype.                             *)
(***************************************************************************)
Keywords == {"andalltfs", "oralltfs", "multitype"}

\* the values of EXPERIMENT_TYPE among the analyses of a transcription factor
ExperimentTypes(tf) ==
  {d[3] : d \in {x \in AnalysisData : x[2] = "EXPERIMENT_TYPE" /\ AnalysisTF[x[1]] = tf}}

\* a['id'] after groupby('tf_id').filter(nunique > 1)
multitype_analyses ==
  {a \in DOMAIN AnalysisTF :
     /\ \E d \in AnalysisData : d[1] = a /\ d[2] = "EXPERIMENT_TYPE"
     /\ Cardinality(ExperimentTypes(AnalysisTF[a])) > 1}

\* qs: the interactions left by the restrictions of the keyword and of
\* tf_filter_list (analysis__tf__gene_id__in)
all_tf_qs(query, filter_list) ==
  {i \in Interaction :
     /\ query = "multitype" => i[2] \in multitype_analyses
     /\ filter_list.given => AnalysisTF[i[2]] \in filter_list.names}

\* `if df.empty: raise ValueError("No data in database.")`
get_all_tf_raises(query, filter_list) ==
  IF all_tf_qs(query, filter_list) = {} THEN "ValueError" ELSE ""

\* df[df.loc[:, (:, :, ['EDGE', 'Log2FC'])].notna().all(axis=1)]
AndAllTFs(df) ==
  [df EXCEPT !.rows = {r \in df.rows :
                         \A c \in df.cols : c.attr \in {"EDGE", "Log2FC"} => NotNa(df, r, c)},
             !.cell = [p \in {x \in DOMAIN df.cell :
                                \A c \in df.cols :
                                   c.attr \in {"EDGE", "Log2FC"} => NotNa(df, x[1], c)}
                         |-> df.cell[p]]]

\* the frame get_all_tf returns when it does not raise.  The columns are
\* sorted by TF and analysis; the analyses of the database are numbered in
\* the order of the names of their TFs.
get_all_tf(query, filter_list) ==
  LET df == all_tf_qs(query, filter_list)
      regOf(i) == {r \in Regulation : r.analysis = i[2] /\ r.target = i[1]}
      hasReg == {i \in df : regOf(i) # {}}
      \* the analyses whose rows all have a NaN Log2FC
      no_fc == {a \in {i[2] : i \in df} : \A i \in df : i[2] = a => regOf(i) = {}}
      edge == {i \in df : i[2] \in no_fc}
      tf(i) == Label(AnalysisTF[i[2]])
      cellSet == {<<i[1], Col(tf(i), i[2], "EDGE")>> : i \in edge}
                 \cup {<<i[1], Col(tf(i), i[2], "Pvalue")>> : i \in hasReg}
                 \cup {<<i[1], Col(tf(i), i[2], "Log2FC")>> : i \in hasReg}
      value(p) == IF p[2].attr = "EDGE" THEN Plus
                  ELSE LET r == CHOOSE r \in Regulation :
                                   r.analysis = p[2].an /\ r.target = p[1]
                       IN IF p[2].attr = "Pvalue" THEN Num(r.p_value) ELSE Num(r.foldchange)
      wide == [TargetFrame({i[1] : i \in df},
                           PivotOrder({p[2] : p \in cellSet}),
                           [p \in cellSet |-> value(p)])
                 EXCEPT !.filter_string = <<query>>]
  IN IF query = "andalltfs" THEN AndAllTFs(wide) ELSE wide

(***************************************************************************)
(* get_suffix: the suffixes of the two sides of a merge, each the side's   *)
(* filter_string and a fresh uuid4 (u + 1 and u + 2 for the counter u).    *)
(***************************************************************************)
\* faulty variant: one uuid4 token for both suffixes
get_suffix_sameToken(prec, succ, u) ==
  << <<prec.filter_string, u + 1>>, <<succ.filter_string, u + 1>> >>

get_suffix(prec, succ, u) == << <<prec.filter_string, u + 1>>, <<succ.filter_string, u + 2>> >>

(***************************************************************************)
(* DataFrame.merge(how, left_index=True, right_index=True, suffixes): the  *)
(* join on the row index.  When the two sides share a column label, every  *)
(* column whose level-0 label occurs among the shared labels gets its      *)
(* side's suffix appended to the level-0 label.  The result is a new       *)
(* TargetFrame: include and filter_string are the defaults.                *)
(***************************************************************************)
Renamed(c, to_rename, suffix) ==
  IF c.tf \in {o.tf : o \in to_rename} THEN [c EXCEPT !.tf.sfx = Append(@, suffix)] ELSE c

RenameCols(df, to_rename, suffix) ==
  LET pairs == {<<p[1], Renamed(p[2], to_rename, suffix)>> : p \in DOMAIN df.cell}
      orig(q) == CHOOSE p \in DOMAIN df.cell : p[1] = q[1] /\ Renamed(p[2], to_rename, suffix) = q[2]
  IN [df EXCEPT !.cols = {Renamed(c, to_rename, suffix) : c \in df.cols},
                !.order = [i \in DOMAIN df.order |-> Renamed(df.order[i], to_rename, suffix)],
                !.cell = [q \in pairs |-> df.cell[orig(q)]]]

\* faulty variant: how='outer' where the code has how='inner'
JoinRowsInner_outer(prec, succ) == prec.rows \cup succ.rows

JoinRowsInner(prec, succ) == prec.rows \cap succ.rows

JoinRows(prec, succ, how) ==
  IF how = "inner" THEN JoinRowsInner(prec, succ) ELSE prec.rows \cup succ.rows

merge(prec, succ, how, suffixes) ==
  LET to_rename == prec.cols \cap succ.cols
      l == RenameCols(prec, to_rename, suffixes[1])
      r == RenameCols(succ, to_rename, suffixes[2])
      rows == JoinRows(prec, succ, how)
      keep == {p \in (DOMAIN l.cell) \cup (DOMAIN r.cell) : p[1] \in rows}
  IN TargetFrame(rows, l.order \o r.order,
                 [p \in keep |-> IF p \in DOMAIN l.cell THEN l.cell[p] ELSE r.cell[p]])

\* faulty variant: the row selection is dropped
LocNotIn_keep(df, other) == df

\* df.loc[~df.index.isin(other.index), :]: a row selection, metadata kept
LocNotIn(df, other) ==
  LET rows == df.rows \ other.rows
  IN [df EXCEPT !.rows = rows,
                !.cell = [p \in {q \in DOMAIN df.cell : q[1] \in rows} |-> df.cell[p]]]

(***************************************************************************)
(* df.groupby(level=[0, 1], axis=1).filter(lambda x: x.notna().any(None)). *)
(* Building the grouper raises IndexError when the frame has columns and   *)
(* none of them has an analysis level (level 1 holds only NaN: a take from *)
(* an empty level).  Otherwise the columns of the groups with a value are  *)
(* kept; columns whose analysis is NaN belong to no group and are dropped. *)
(* The rows and the metadata are those of df.                              *)
(***************************************************************************)
RaisesIndexError(df) == df.cols # {} /\ \A c \in df.cols : c.an = NaNAnalysis

GroupHasValue(df, g) == \E p \in DOMAIN df.cell : Group(p[2]) = g

FilterGroups(df) ==
  LET cols == {c \in df.cols : c.an # NaNAnalysis /\ GroupHasValue(df, Group(c))}
  IN [df EXCEPT !.cols = cols,
                !.order = SelectSeq(df.order, LAMBDA c : c \in cols),
                !.cell = [p \in {q \in DOMAIN df.cell : q[2] \in cols} |-> df.cell[p]]]

\* the frame of the except IndexError branch
FallbackFrame == TargetFrame({}, << >>, << >>)

\* faulty variant: the column groups are not filtered
GroupFilter_none(df) == df

GroupFilter(df) == IF RaisesIndexError(df) THEN FallbackFrame ELSE FilterGroups(df)

(***************************************************************************)
(* get_tf, the branch of 'and' / 'or': the frame df that is pushed.        *)
(***************************************************************************)
SetInclude(df, b) == [df EXCEPT !.include = b]

AndFrame(prec, succ, u) ==
  IF prec.include /\ succ.include
    THEN merge(prec, succ, "inner", get_suffix(prec, succ, u))
  ELSE IF ~prec.include /\ succ.include
    THEN LocNotIn(succ, prec)
  ELSE IF prec.include /\ ~succ.include
    THEN LocNotIn(prec, succ)
  ELSE SetInclude(merge(prec, succ, "outer", get_suffix(prec, succ, u)), FALSE)

\* faulty variant: 'or' with one negated operand removes the negated operand's rows
OrFrame_mixedAsAnd(prec, succ, u) ==
  IF prec.include /\ succ.include
    THEN merge(prec, succ, "outer", get_suffix(prec, succ, u))
  ELSE IF ~prec.include /\ succ.include
    THEN LocNotIn(succ, prec)
  ELSE IF prec.include /\ ~succ.include
    THEN LocNotIn(prec, succ)
  ELSE SetInclude(merge(prec, succ, "inner", get_suffix(prec, succ, u)), FALSE)

OrFrame(prec, succ, u) ==
  IF prec.include /\ succ.include
    THEN merge(prec, succ, "outer", get_suffix(prec, succ, u))
  ELSE IF ~prec.include /\ succ.include
    THEN succ
  ELSE IF prec.include /\ ~succ.include
    THEN prec
  ELSE SetInclude(merge(prec, succ, "inner", get_suffix(prec, succ, u)), FALSE)

BinOp(curr, prec, succ, u) ==
  LET df == IF curr = "and" THEN AndFrame(prec, succ, u) ELSE OrFrame(prec, succ, u)
      filter_string == prec.filter_string \o <<(IF curr = "and" THEN " and " ELSE " or ")>>
                         \o succ.filter_string
  IN [GroupFilter(df) EXCEPT !.filter_string = filter_string]

\* the uuid4 values drawn by the branch: get_suffix is called by the merges
UsesSuffix(prec, succ) == prec.include = succ.include

\* faulty variant: include is negated, filter_string is left as it was
NotOp_noPrefix(succ) == [succ EXCEPT !.include = ~succ.include]

\* faulty variant: include is cleared instead of negated
NotOp_clear(succ) ==
  [succ EXCEPT !.include = FALSE,
               !.filter_string = <<"not ">> \o succ.filter_string]

\* get_tf, the branch of 'not'
NotOp(succ) ==
  [succ EXCEPT !.include = ~succ.include,
               !.filter_string = <<"not ">> \o succ.filter_string]

(***************************************************************************)
(* Modifiers.  A modifier is one comparison [key oper value] of the        *)
(* grammar's modname; the keys of the model are PVALUE and FC (get_mod     *)
(* applies apply_comp_mod to every (TF, analysis) group) and a metadata    *)
(* key (query_metadata).  A mask is the set of the <<row, column>> cells   *)
(* it holds True for.                                                      *)
(***************************************************************************)
Modifiers ==
  { [key |-> "PVALUE", oper |-> "<", value |-> "0.05"],
    [key |-> "PVALUE", oper |-> "<", value |-> "0.5"],
    [key |-> "PVALUE", oper |-> "<", value |-> "abc"],
    [key |-> "EXPERIMENT_TYPE", oper |-> "=", value |-> "CHIPSEQ"] }

\* float(value), in thousandths; ok is false when float raises ValueError
Float(value) ==
  CASE value = "0.05" -> [ok |-> TRUE, num |-> 50]
    [] value = "0.5" -> [ok |-> TRUE, num |-> 500]
    [] OTHER -> [ok |-> FALSE, num |-> 0]

\* the comparison of apply_comp_mod for oper
Compare(oper, x, value) ==
  CASE oper = "=" -> x = value
    [] oper = ">=" -> x >= value
    [] oper = "<=" -> x <= value
    [] oper = ">" -> x > value
    [] oper = "<" -> x < value
    [] OTHER -> x # value

\* the groups of groupby(level=[0, 1], axis=1)
Groups(df) == {Group(c) : c \in {x \in df.cols : x.an # NaNAnalysis}}

\* faulty variant: the comparison is not applied
apply_comp_mod_all(df, name, key, oper, value) ==
  {p \in df.rows \X {c \in df.cols : Group(c) = name} : TRUE}

\* apply_comp_mod for the group name = (TF, analysis) and a value float
\* accepts: no cell when the group has no column key (KeyError), else the
\* cells of the rows whose value in that column passes the comparison
apply_comp_mod(df, name, key, oper, value) ==
  LET col == Col(name[1], name[2], key)
  IN IF col \notin df.cols THEN {}
     ELSE {p \in df.rows \X {c \in df.cols : Group(c) = name} :
             /\ <<p[1], col>> \in DOMAIN df.cell
             /\ Compare(oper, df.cell[<<p[1], col>>].num, Float(value).num)}

\* query_metadata: the columns of the analyses that have the metadata record
query_metadata(df, key, value) ==
  LET ref_ids == {a \in DOMAIN AnalysisTF : <<a, Upper(key), Upper(value)>> \in AnalysisData}
  IN {p \in df.rows \X df.cols : p[2].an \in ref_ids}

\* the key of the value column for the modifier key
CompKey(key) == IF key = "PVALUE" THEN "Pvalue" ELSE "Log2FC"

IsComp(query) == query.key \in {"PVALUE", "FC"}

\* the exception get_mod raises ("" for none): the groupby of a frame whose
\* columns all lack an analysis raises IndexError, float(value) raises
\* ValueError in the first group
get_mod_raises(df, query) ==
  IF ~IsComp(query) THEN ""
  ELSE IF RaisesIndexError(df) THEN "IndexError"
  ELSE IF Groups(df) # {} /\ ~Float(query.value).ok THEN "ValueError"
  ELSE ""

get_mod(df, query) ==
  IF IsComp(query)
    THEN UNION {apply_comp_mod(df, g, CompKey(query.key), query.oper, query.value) :
                  g \in Groups(df)}
  ELSE query_metadata(df, query.key, query.value)

\* faulty variant: the mask is not applied
Masked_all(prec, mod) == prec

\* prec[mod].dropna(how='all'): the cells outside the mask are missing, the
\* rows without a cell are dropped; the metadata are those of prec
Masked(prec, mod) ==
  LET cells == (DOMAIN prec.cell) \cap mod
  IN [prec EXCEPT !.rows = {p[1] : p \in cells},
                  !.cell = [p \in cells |-> prec.cell[p]]]

mod_to_str(query) == <<"[", query.key, query.oper, query.value, "]">>

\* get_tf, the branch of a modifier: the exception that escapes, or the frame
\* that is pushed.  The group filter of this branch has no except clause.
ModRaises(prec, query) ==
  IF get_mod_raises(prec, query) # "" THEN get_mod_raises(prec, query)
  ELSE IF RaisesIndexError(Masked(prec, get_mod(prec, query))) THEN "IndexError"
  ELSE ""

ModOp(prec, query) ==
  LET df == FilterGroups(Masked(prec, get_mod(prec, query)))
  IN [df EXCEPT !.filter_string = prec.filter_string \o mod_to_str(query)]

(***************************************************************************)
(* reorder_data.  analysis_order and tf_order hold the analyses and the TF *)
(* labels by descending count of the non-missing EDGE / Log2FC cells;      *)
(* count(level=...) has an entry for every value of the level, so no       *)
(* column is dropped by the two reindex calls.  sort_values(ascending=     *)
(* False) is the reverse of the ascending sort of the level values, which  *)
(* are kept sorted: analyses with equal counts come in descending id,      *)
(* labels with equal counts in a fixed order of the labels.                *)
(* reindex(level=1) sorts the columns by analysis within every run of      *)
(* adjacent columns of one TF label and keeps the order of the runs;       *)
(* reindex(level=0) then sorts by TF label.  Both sorts are stable.        *)
(***************************************************************************)
EdgeCells(df) == {p \in DOMAIN df.cell : p[2].attr \in {"EDGE", "Log2FC"}}

AnalysisCount(df, an) == Cardinality({p \in EdgeCells(df) : p[2].an = an})

TFCount(df, tf) == Cardinality({p \in EdgeCells(df) : p[2].tf = tf})

RECURSIVE SortAnalyses(_, _)
SortAnalyses(df, S) ==
  IF S = {} THEN << >>
  ELSE LET a == CHOOSE x \in S : \A y \in S :
                  \/ AnalysisCount(df, x) > AnalysisCount(df, y)
                  \/ AnalysisCount(df, x) = AnalysisCount(df, y) /\ x >= y
       IN <<a>> \o SortAnalyses(df, S \ {a})

analysis_order(df) == SortAnalyses(df, {c.an : c \in df.cols})

RECURSIVE SortTFs(_, _)
SortTFs(df, S) ==
  IF S = {} THEN << >>
  ELSE LET t == CHOOSE x \in S : \A y \in S : TFCount(df, x) >= TFCount(df, y)
       IN <<t>> \o SortTFs(df, S \ {t})

tf_order(df) == SortTFs(df, {c.tf : c \in df.cols})

Pos(seq, x) == CHOOSE i \in DOMAIN seq : seq[i] = x

\* the stable sort of the positions I by the keys k (pairs of numbers)
KeyLess(k, i, j) ==
  \/ k[i][1] < k[j][1]
  \/ k[i][1] = k[j][1] /\ k[i][2] < k[j][2]
  \/ k[i] = k[j] /\ i <= j

RECURSIVE SortIdx(_, _)
SortIdx(I, k) ==
  IF I = {} THEN << >>
  ELSE LET m == CHOOSE i \in I : \A j \in I : KeyLess(k, i, j)
       IN <<m>> \o SortIdx(I \ {m}, k)

\* the number of the run of adjacent columns of one TF label that holds column i
Run(order, i) == Cardinality({j \in 2..i : order[j].tf # order[j - 1].tf})

reindex_level1(order, target) ==
  LET k == [i \in DOMAIN order |-> <<Run(order, i), Pos(target, order[i].an)>>]
      idx == SortIdx(DOMAIN order, k)
  IN [n \in DOMAIN order |-> order[idx[n]]]

reindex_level0(order, target) ==
  LET k == [i \in DOMAIN order |-> <<Pos(target, order[i].tf), 0>>]
      idx == SortIdx(DOMAIN order, k)
  IN [n \in DOMAIN order |-> order[idx[n]]]

reorder_data(df) ==
  [df EXCEPT !.order = reindex_level0(reindex_level1(df.order, analysis_order(df)),
                                      tf_order(df))]

(***************************************************************************)
(* parse_query: the outcome for the frame get_tf returns.                  *)
(***************************************************************************)
\* faulty variant: the include flag is not checked
RaisesQueryError_emptyOnly(res) == Empty(res)

RaisesQueryError(res) == Empty(res) \/ ~res.include

QueryError == [raised |-> TRUE, msg |-> "empty query", frame |-> FallbackFrame]

\* an exception other than QueryError that escapes parse_query
Escapes(exc) == [raised |-> TRUE, msg |-> exc, frame |-> FallbackFrame]

Returned(df) == [raised |-> FALSE, msg |-> "", frame |-> df]

parse_query(res) == IF RaisesQueryError(res) THEN QueryError ELSE Returned(reorder_data(res))

(***************************************************************************)
(* get_query_result for a query string (cache_path is None).  user_lists   *)
(* is None or the pair of get_gene_lists, of which the frame is used:      *)
(* index, the genes in file order, with the columns User List Count and    *)
(* User List (list holds the rank of the string among the strings of the   *)
(* frame).  size_limit is None or a number.                                *)
(***************************************************************************)
NoLists == [given |-> FALSE, index |-> << >>, count |-> << >>, list |-> << >>]

UserLists ==
  { NoLists,
    [given |-> TRUE, index |-> <<"A">>, count |-> ("A" :> 1), list |-> ("A" :> 1)],
    [given |-> TRUE, index |-> <<"C", "A", "B">>,
     count |-> ("A" :> 2 @@ "B" :> 1 @@ "C" :> 1),
     list |-> ("A" :> 2 @@ "B" :> 1 @@ "C" :> 1)] }

NoLimit == [given |-> FALSE, n |-> 0]

SizeLimits == { NoLimit, [given |-> TRUE, n |-> 1], [given |-> TRUE, n |-> 3] }

\* DataFrame.size
Size(df) == Cardinality(df.rows) * Cardinality(df.cols)

\* result[result.index.isin(user_lists[0].index)].dropna(axis=1, how='all')
UserListFilter(df, user_lists) ==
  LET rows == df.rows \cap Range(user_lists.index)
      cells == {p \in DOMAIN df.cell : p[1] \in rows}
      cols == {p[2] : p \in cells}
  IN [df EXCEPT !.rows = rows,
                !.cols = cols,
                !.order = SelectSeq(df.order, LAMBDA c : c \in cols),
                !.cell = [p \in cells |-> df.cell[p]]]

Filtered(df, user_lists) == IF user_lists.given THEN UserListFilter(df, user_lists) ELSE df

\* get_tf_count: the non-missing EDGE / Log2FC cells of a row
get_tf_count(df, r) == Cardinality({p \in EdgeCells(df) : p[1] = r})

\* the orders the rows of a frame can be in
Perms(S) ==
  {s \in [1..Cardinality(S) -> S] : \A i, j \in 1..Cardinality(S) : i # j => s[i] # s[j]}

Sorted(seq, k) ==
  LET idx == SortIdx(DOMAIN seq, k)
  IN [n \in DOMAIN seq |-> seq[idx[n]]]

\* sort_values(['User List Count', 'User List']) of the inner merge with user_lists[0]
SortUserList(seq, user_lists) ==
  Sorted(seq, [i \in DOMAIN seq |-> <<user_lists.count[seq[i]], user_lists.list[seq[i]]>>])

\* faulty variant: the final sort is ascending
SortTFCount_ascending(seq, df) ==
  Sorted(seq, [i \in DOMAIN seq |-> <<get_tf_count(df, seq[i]), 0>>])

\* sort_values('TF Count', ascending=False, kind='mergesort')
SortTFCount(seq, df) ==
  Sorted(seq, [i \in DOMAIN seq |-> <<0 - get_tf_count(df, seq[i]), 0>>])

NotCalled ==
  [called |-> FALSE, raised |-> FALSE, msg |-> "", rows |-> << >>, base |-> << >>,
   frame |-> TargetFrame({}, << >>, << >>), user_lists |-> NoLists, size_limit |-> NoLimit]

Failed(msg, df, user_lists, size_limit) ==
  [called |-> TRUE, raised |-> TRUE, msg |-> msg, rows |-> << >>, base |-> << >>,
   frame |-> df, user_lists |-> user_lists, size_limit |-> size_limit]

\* the exception get_query_result raises for the outcome pq of parse_query
\* ("" for none)
get_query_result_raises(pq, user_lists, size_limit) ==
  IF pq.raised THEN pq.msg
  ELSE IF Empty(Filtered(pq.frame, user_lists))
    THEN "Empty result (user list too restrictive)."
  ELSE IF size_limit.given /\ Size(Filtered(pq.frame, user_lists)) > size_limit.n
    THEN "Result too large."
  ELSE ""

\* the table returned: base is the order of the rows of result before the
\* sorts, rows their order in the table returned
get_query_result(pq, user_lists, size_limit, base) ==
  LET df == Filtered(pq.frame, user_lists)
      merged == IF user_lists.given THEN SortUserList(base, user_lists) ELSE base
  IN [called |-> TRUE, raised |-> FALSE, msg |-> "", rows |-> SortTFCount(merged, df),
      base |-> base, frame |-> df, user_lists |-> user_lists, size_limit |-> size_limit]

(***************************************************************************)
(* Annotations (utils/__init__.py): the annotation table, loaded once by a *)
(* background thread.  anno is self._anno, lock is self.lock, task is the  *)
(* thread self.task with the local variable anno of get_annotations.       *)
(* readers are the threads that call annotations() or annotations.genes.   *)
(***************************************************************************)
\* the gene ids of the Annotation records
AnnotationGenes == {"A", "B"}

AnnoColumns == <<"Full Name", "Gene Family", "Type", "Name", "id">>

\* self._anno = None
None == [given |-> FALSE, index |-> {}, columns |-> << >>]

\* a DataFrame with the index TARGET and the annotation columns
AnnoFrame(index) == [given |-> TRUE, index |-> index, columns |-> AnnoColumns]

Readers == {"r1", "r2"}

\* faulty variant: the rows read before the error are kept, without a warning
get_annotations_except_keep(local) == [anno |-> local, warned |-> FALSE]

\* except DatabaseError: warn and substitute a frame without rows
get_annotations_except(local) == [anno |-> AnnoFrame({}), warned |-> TRUE]

\* faulty variant: a reader never waits for the loader
IsNone_never(a) == FALSE

\* `self._anno is None`
IsNone(a) == ~a.given

\* what a reader has got from its last call
NoValue == [given |-> FALSE, kind |-> "", raised |-> FALSE, value |-> None, genes |-> {}]

\* `return self._anno`
CallValue(a) == [given |-> TRUE, kind |-> "call", raised |-> FALSE, value |-> a, genes |-> {}]

\* `return set(self._anno.index)`: None has no index
GenesValue(a) ==
  [given |-> TRUE, kind |-> "genes", raised |-> ~a.given, value |-> a, genes |-> a.index]

InitAnno ==
  /\ anno = None
  /\ lock = "free"
  /\ task = [pc |-> "fetch", local |-> AnnoFrame({})]
  /\ warned = FALSE
  /\ failed = FALSE
  /\ readers = [r \in Readers |-> [pc |-> "idle", kind |-> "", waited |-> FALSE, ret |-> NoValue]]

\* the iterator yields one more record
FetchRow ==
  /\ task.pc = "fetch"
  /\ \E g \in AnnotationGenes \ task.local.index :
       task' = [task EXCEPT !.local = AnnoFrame(task.local.index \cup {g})]
  /\ UNCHANGED <<anno, lock, warned, failed, readers, queryvars, restvars>>

\* the iterator is exhausted: set_index('TARGET')
FetchDone ==
  /\ task.pc = "fetch"
  /\ task.local.index = AnnotationGenes
  /\ task' = [task EXCEPT !.pc = "acquire"]
  /\ UNCHANGED <<anno, lock, warned, failed, readers, queryvars, restvars>>

\* the query raises DatabaseError, before or between records
FetchFail ==
  /\ task.pc = "fetch"
  /\ LET e == get_annotations_except(task.local)
     IN /\ task' = [pc |-> "acquire", local |-> e.anno]
        /\ warned' = e.warned
  /\ failed' = TRUE
  /\ UNCHANGED <<anno, lock, readers, queryvars, restvars>>

\* with self.lock:
Acquire ==
  /\ task.pc = "acquire"
  /\ lock = "free"
  /\ lock' = "task"
  /\ task' = [task EXCEPT !.pc = "store"]
  /\ UNCHANGED <<anno, warned, failed, readers, queryvars, restvars>>

\* self._anno = anno
Store ==
  /\ task.pc = "store"
  /\ anno' = task.local
  /\ task' = [task EXCEPT !.pc = "release"]
  /\ UNCHANGED <<lock, warned, failed, readers, queryvars, restvars>>

\* the end of the with block and of the thread
Release ==
  /\ task.pc = "release"
  /\ lock' = "free"
  /\ task' = [task EXCEPT !.pc = "dead"]
  /\ UNCHANGED <<anno, warned, failed, readers, queryvars, restvars>>

\* a thread calls annotations() or reads annotations.genes
Call(r, kind) ==
  /\ readers[r].pc = "idle"
  /\ readers' = [readers EXCEPT ![r] = [pc |-> IF kind = "genes" THEN "genes" ELSE "call",
                                        kind |-> kind, waited |-> FALSE, ret |-> NoValue]]
  /\ UNCHANGED <<anno, lock, task, warned, failed, queryvars, restvars>>

\* genes: `if self._anno is None: self()`
GenesCheck(r) ==
  /\ readers[r].pc = "genes"
  /\ readers' = [readers EXCEPT ![r].pc = IF IsNone(anno) THEN "call" ELSE "genes_return"]
  /\ UNCHANGED <<anno, lock, task, warned, failed, queryvars, restvars>>

\* __call__: `if self._anno is None:`
Check(r) ==
  /\ readers[r].pc = "call"
  /\ readers' = [readers EXCEPT ![r].pc = IF IsNone(anno) THEN "join" ELSE "return"]
  /\ UNCHANGED <<anno, lock, task, warned, failed, queryvars, restvars>>

\* self.task.join() returns when the thread has ended
Join(r) ==
  /\ readers[r].pc = "join"
  /\ task.pc = "dead"
  /\ readers' = [readers EXCEPT ![r].pc = "return", ![r].waited = TRUE]
  /\ UNCHANGED <<anno, lock, task, warned, failed, queryvars, restvars>>

\* __call__: `return self._anno`; genes drops the value of self()
Return(r) ==
  /\ readers[r].pc = "return"
  /\ readers' = IF readers[r].kind = "genes"
                  THEN [readers EXCEPT ![r].pc = "genes_return"]
                  ELSE [readers EXCEPT ![r].pc = "idle", ![r].ret = CallValue(anno)]
  /\ UNCHANGED <<anno, lock, task, warned, failed, queryvars, restvars>>

\* genes: `return set(self._anno.index)`
GenesReturn(r) ==
  /\ readers[r].pc = "genes_return"
  /\ readers' = [readers EXCEPT ![r].pc = "idle", ![r].ret = GenesValue(anno)]
  /\ UNCHANGED <<anno, lock, task, warned, failed, queryvars, restvars>>

(***************************************************************************)
(* The evaluation of a query by get_tf.  stack is the operand stack of the *)
(* nested get_tf calls in evaluation order: a gene name pushes its table,  *)
(* 'not' replaces the operand it evaluated, 'and' / 'or' replace prec and  *)
(* succ by df.  last records the operation that was evaluated last with    *)
(* its operands (the frame it pushed is the top of stack).  stack2, result2 are a second evaluation of the same      *)
(* query in which one sub-expression x is written `not not x` (dn tells    *)
(* that this has happened).  tokens counts the tokens of the query read so *)
(* far; the second query has two more once dn holds.                       *)
(***************************************************************************)
NoFrame == TargetFrame({}, << >>, << >>)

NoResult == [raised |-> FALSE, msg |-> "none", frame |-> NoFrame]

Top(s) == s[Len(s)]
Pop(s, n) == SubSeq(s, 1, Len(s) - n)

\* the query is one of at most MaxTokens tokens: n more tokens, and the
\* 'and' / 'or' that the operands on a stack of d frames still need, fit in
\* the longer of the two queries
Budget(n, d) == tokens + (IF dn THEN 2 ELSE 0) + n + (d - 1) <= MaxTokens

(***************************************************************************)
(* The grammar expr and get_tf on its parse.  A query text is a sequence   *)
(* of tokens: words (gene names and the keywords, as typed) and modifiers  *)
(* in brackets.  A parse is a tree of items: a string, a modifier or a     *)
(* group of items (pp.ParseResults); the stack of get_tf also holds        *)
(* frames.  Parentheses are not part of the texts of the model.            *)
(***************************************************************************)
MaxTextTokens == 5

NoQuery == [key |-> "", oper |-> "", value |-> ""]

Str(s) == [k |-> "str", s |-> s, q |-> NoQuery, items |-> << >>, df |-> NoFrame]
Modifier(q) == [k |-> "modifier", s |-> "", q |-> q, items |-> << >>, df |-> NoFrame]
ParseResults(items) == [k |-> "group", s |-> "", q |-> NoQuery, items |-> items, df |-> NoFrame]
Frame(df) == [k |-> "frame", s |-> "", q |-> NoQuery, items |-> << >>, df |-> df]

\* the words and modifiers of the texts
Words == {"TF1", "TF3", "and", "or", "not", "AND", "OR", "NOT"}
TextModifiers == {m \in Modifiers : m.value = "0.5"}
TextTokens == {Str(w) : w \in Words} \cup {Modifier(m) : m \in TextModifiers}

\* faulty variant: the keywords are matched as typed
Lower_asTyped(s) == s

\* the caseless match of pp.CaselessKeyword
Lower(s) == CASE s = "AND" -> "and" [] s = "OR" -> "or" [] s = "NOT" -> "not" [] OTHER -> s

\* pp.CaselessKeyword(kw) matches the token; the parse holds kw itself
Keyword(tok, kw) == tok.k = "str" /\ Lower(tok.s) = kw

NoParse == [ok |-> FALSE, tree |-> Str(""), rest |-> << >>]
Parsed(tree, rest) == [ok |-> TRUE, tree |-> tree, rest |-> rest]

\* gene: name matches every word
ParseGene(toks) ==
  IF toks # << >> /\ toks[1].k = "str" THEN Parsed(toks[1], Tail(toks)) ELSE NoParse

\* the modifiers at the head of toks
RECURSIVE LeadingModifiers(_)
LeadingModifiers(toks) ==
  IF toks # << >> /\ toks[1].k = "modifier"
    THEN <<toks[1]>> \o LeadingModifiers(Tail(toks))
    ELSE << >>

\* Group(gene + OneOrMore(modifier)) for the gene g and the modifiers mods
\* that follow it, or the gene
GeneWithModifiers(g, mods) ==
  IF g.ok /\ mods # << >>
    THEN Parsed(ParseResults(<<g.tree>> \o mods), SubSeq(g.rest, Len(mods) + 1, Len(g.rest)))
    ELSE g

\* (modifier, 1, LEFT)
ParseModifierLevel(toks) ==
  GeneWithModifiers(ParseGene(toks),
                    LeadingModifiers(IF toks = << >> THEN << >> ELSE Tail(toks)))

\* Group(not + operand) when the operand sub has matched, else the level
\* below
NotOrBelow(sub, below) ==
  IF sub.ok THEN Parsed(ParseResults(<<Str("not"), sub.tree>>), sub.rest) ELSE below

\* (not, 1, RIGHT): the operand is of this level
RECURSIVE ParseNotLevel(_)
ParseNotLevel(toks) ==
  NotOrBelow(IF toks # << >> /\ Keyword(toks[1], "not")
               THEN ParseNotLevel(Tail(toks)) ELSE NoParse,
             ParseModifierLevel(toks))

NoPairs(toks) == [items |-> << >>, rest |-> toks]

\* one more pair (kw, operand) before the pairs more
AddPair(kw, sub, more) == [items |-> <<Str(kw), sub.tree>> \o more.items, rest |-> more.rest]

\* Group(operand + OneOrMore(kw + operand)) for the operand first and the
\* pairs that follow it, or the operand
Chain(first, pairs) ==
  IF first.ok /\ pairs.items # << >>
    THEN Parsed(ParseResults(<<first.tree>> \o pairs.items), pairs.rest)
    ELSE first

\* OneOrMore(and + operand): the flat list of the pairs that match
RECURSIVE AndPairs(_)
RECURSIVE AndPairsAfter(_, _)
AndPairsAfter(toks, sub) ==
  IF sub.ok THEN AddPair("and", sub, AndPairs(sub.rest)) ELSE NoPairs(toks)

AndPairs(toks) ==
  AndPairsAfter(toks, IF toks # << >> /\ Keyword(toks[1], "and")
                        THEN ParseNotLevel(Tail(toks)) ELSE NoParse)

AndLevelAfter(first) ==
  Chain(first, IF first.ok THEN AndPairs(first.rest) ELSE NoPairs(<< >>))

\* (and, 2, LEFT)
ParseAndLevel(toks) == AndLevelAfter(ParseNotLevel(toks))

RECURSIVE OrPairs(_)
RECURSIVE OrPairsAfter(_, _)
OrPairsAfter(toks, sub) ==
  IF sub.ok THEN AddPair("or", sub, OrPairs(sub.rest)) ELSE NoPairs(toks)

OrPairs(toks) ==
  OrPairsAfter(toks, IF toks # << >> /\ Keyword(toks[1], "or")
                       THEN ParseAndLevel(Tail(toks)) ELSE NoParse)

OrLevelAfter(first) ==
  Chain(first, IF first.ok THEN OrPairs(first.rest) ELSE NoPairs(<< >>))

\* (or, 2, LEFT)
ParseOrLevel(toks) == OrLevelAfter(ParseAndLevel(toks))

\* parseString(query, parseAll=True): all tokens are read
ParseAll(r) == IF r.ok /\ r.rest = << >> THEN r ELSE NoParse

parseString(toks) == ParseAll(ParseOrLevel(toks))

\* the outcome of a call of get_tf: the frame, or the exception it raises,
\* and the uuid4 counter
Value(df, u) == [raised |-> "", frame |-> df, u |-> u]
Raises(exc, u) == [raised |-> exc, frame |-> NoFrame, u |-> u]

\* get_tf(query) for an item or a frame, and its loop over the items of a
\* group from item i on with the stack stk
RECURSIVE get_tf(_, _, _)
RECURSIVE get_tf_loop(_, _, _, _, _)
RECURSIVE get_tf_pop(_, _, _)
RECURSIVE get_tf_bin(_, _, _, _, _)
RECURSIVE get_tf_bin_succ(_, _, _, _, _, _)
RECURSIVE get_tf_not(_, _, _, _, _)
RECURSIVE get_tf_modifier(_, _, _, _, _)

\* `return get_tf(stack.pop())`: pop from an empty deque raises IndexError
get_tf_pop(stk, u, fl) ==
  IF stk = << >> THEN Raises("IndexError", u) ELSE get_tf(Top(stk), u, fl)

\* curr in ('and', 'or'), with prec the outcome of get_tf(stack.pop()) and
\* succ that of get_tf(next(it))
get_tf_bin_succ(items, i, stk, fl, prec, succ) ==
  IF succ.raised # "" THEN succ
  ELSE get_tf_loop(items, i + 2,
                   Append(Pop(stk, 1),
                          Frame(BinOp(items[i].s, prec.frame, succ.frame, succ.u))),
                   IF UsesSuffix(prec.frame, succ.frame) THEN succ.u + 2 ELSE succ.u,
                   fl)

get_tf_bin(items, i, stk, fl, prec) ==
  IF prec.raised # "" THEN prec
  \* next(it) raises StopIteration, which the loop's except clause catches
  ELSE IF i + 1 > Len(items) THEN get_tf_pop(Pop(stk, 1), prec.u, fl)
  ELSE get_tf_bin_succ(items, i, stk, fl, prec, get_tf(items[i + 1], prec.u, fl))

\* curr == 'not', with succ the outcome of get_tf(next(it))
get_tf_not(items, i, stk, fl, succ) ==
  IF succ.raised # "" THEN succ
  ELSE get_tf_loop(items, i + 2, Append(stk, Frame(NotOp(succ.frame))), succ.u, fl)

\* is_modifier(curr), with prec the outcome of get_tf(stack.pop())
get_tf_modifier(items, i, stk, fl, prec) ==
  IF prec.raised # "" THEN prec
  ELSE IF ModRaises(prec.frame, items[i].q) # ""
    THEN Raises(ModRaises(prec.frame, items[i].q), prec.u)
  ELSE get_tf_loop(items, i + 1,
                   Append(Pop(stk, 1), Frame(ModOp(prec.frame, items[i].q))), prec.u, fl)

get_tf_loop(items, i, stk, u, fl) ==
  IF i > Len(items) THEN get_tf_pop(stk, u, fl)
  ELSE IF items[i].k = "str" /\ items[i].s \in {"and", "or"}
    THEN get_tf_bin(items, i, stk, fl, get_tf_pop(stk, u, fl))
  ELSE IF items[i].k = "str" /\ items[i].s = "not"
    THEN IF i + 1 > Len(items) THEN get_tf_pop(stk, u, fl)
         ELSE get_tf_not(items, i, stk, fl, get_tf(items[i + 1], u, fl))
  ELSE IF items[i].k = "modifier"
    THEN get_tf_modifier(items, i, stk, fl, get_tf_pop(stk, u, fl))
  ELSE get_tf_loop(items, i + 1, Append(stk, items[i]), u, fl)

get_tf(query, u, fl) ==
  CASE query.k = "frame" -> Value(query.df, u)
    [] query.k = "group" -> get_tf_loop(query.items, 1, << >>, u, fl)
    \* a modifier that is read as a query: its strings are pushed and the
    \* last of them, the value, is fetched as a gene name
    [] query.k = "modifier" -> Value(get_tf_data(query.q.value, fl), u)
    [] OTHER -> Value(get_tf_data(query.s, fl), u)

\* parse_query after the parse: QueryError for a text that does not parse,
\* else the exception of get_tf or the check of its frame
parse_query_parsed(parse, res) ==
  IF ~parse.ok THEN [called |-> TRUE, raised |-> TRUE, msg |-> "Could not parse query",
                     frame |-> FallbackFrame]
  ELSE IF res.raised # ""
    THEN [called |-> TRUE, raised |-> TRUE, msg |-> res.raised, frame |-> FallbackFrame]
  ELSE [called |-> TRUE, raised |-> parse_query(res.frame).raised,
        msg |-> parse_query(res.frame).msg, frame |-> parse_query(res.frame).frame]

\* parse_query(query) for a text
NotEvaluated == [called |-> FALSE, raised |-> FALSE, msg |-> "", frame |-> NoFrame]

parse_query_parse(parse, fl) ==
  parse_query_parsed(parse, IF parse.ok THEN get_tf(parse.tree, 0, fl) ELSE Value(NoFrame, 0))

parse_query_text(toks, fl) == parse_query_parse(parseString(toks), fl)

InitText ==
  /\ text = << >>
  /\ parsed = NoParse
  /\ outcome = NotEvaluated

\* one more token of the query text
Type(tok) ==
  /\ ~outcome.called
  /\ Len(text) < MaxTextTokens
  /\ text' = Append(text, tok)
  /\ UNCHANGED <<parsed, outcome, queryvars, annovars, getmodvars, cachevars, viewvars, listvars>>

\* parse_query(text)
ParseText ==
  /\ ~outcome.called
  /\ text # << >>
  /\ parsed' = parseString(text)
  /\ outcome' = parse_query_text(text, tf_filter_list)
  /\ UNCHANGED <<text, queryvars, annovars, getmodvars, cachevars, viewvars, listvars>>

(***************************************************************************)
(* get_mod as a sequence of steps over objects.  heap[1] is the frame df   *)
(* the modifier is evaluated against; every mask is an object of its own,  *)
(* created by pd.DataFrame(...), mask.where(...), groupby(...).apply(...), *)
(* &, | or ~, and `mask.loc[...] = False` writes to the object it names.   *)
(* A mask has the rows and columns of df and a cell True or False at every *)
(* position.  The conditions of a modifier expression are evaluated in     *)
(* the order of the recursion, their masks kept on a stack.                *)
(***************************************************************************)
True == [kind |-> "bool", num |-> 1]
False == [kind |-> "bool", num |-> 0]

\* pd.DataFrame(value, columns=columns, index=index)
DataFrame(value, columns, index) ==
  [rows |-> index, cols |-> Range(columns), order |-> columns,
   cell |-> [p \in index \X Range(columns) |-> value],
   include |-> TRUE, filter_string |-> << >>]

\* faulty variant: the new name is bound to df itself
Alloc_alias(h, obj) == [heap |-> h, id |-> 1]

\* a new object
Alloc(h, obj) == [heap |-> Append(h, obj), id |-> Len(h) + 1]

\* mask.loc[cells] = False on the object id
SetFalse(h, id, cells) ==
  [h EXCEPT ![id].cell = [p \in (DOMAIN h[id].cell) \cup cells |->
                            IF p \in cells THEN False ELSE h[id].cell[p]]]

\* the cells a mask holds True for
TrueCells(obj) == {p \in DOMAIN obj.cell : obj.cell[p] = True}

\* the mask over the rows and columns of df that is True at trues
MaskFrame(df, trues) ==
  [DataFrame(False, df.order, df.rows) EXCEPT
     !.cell = [p \in df.rows \X df.cols |-> IF p \in trues THEN True ELSE False]]

\* the frames a modifier is evaluated against: the table of a gene, its
\* negation, and a merge of two tables
ModFrames(filter_list) ==
  {get_tf_data(q, filter_list) : q \in QueryNames}
    \cup {NotOp(get_tf_data(q, filter_list)) : q \in QueryNames}
    \cup {BinOp("or", get_tf_data("TF1", filter_list), get_tf_data("TF3", filter_list), 0)}

InitGetMod ==
  /\ heap = << >>
  /\ mstack = << >>
  /\ mpc = "idle"
  /\ mbefore = NoFrame

\* get_mod(df, query) is called
CallGetMod(df) ==
  /\ mpc = "idle"
  /\ heap' = <<df>>
  /\ mbefore' = df
  /\ mpc' = "get_mod"
  /\ UNCHANGED <<mstack, queryvars, annovars, exprvars, cachevars, viewvars, listvars>>

\* the cells of the groups apply_comp_mod finds no column key in (KeyError)
NoKeyCells(df, key) ==
  {p \in df.rows \X df.cols : Col(p[2].tf, p[2].an, key) \notin df.cols}

\* a condition with the key PVALUE or FC: apply_comp_mod makes the mask of
\* a group, writes False to it on KeyError and returns mask.where(...), a new
\* object, otherwise; apply combines the masks of the groups in a new object
CompCondition(h, query) ==
  LET df == h[1]
      a == Alloc(h, DataFrame(True, df.order, df.rows))
      written == SetFalse(a.heap, a.id, NoKeyCells(df, CompKey(query.key)))
  IN Alloc(written, MaskFrame(df, get_mod(df, query)))

\* a condition with another key: query_metadata makes a mask and writes
\* False to the columns of the analyses without the metadata record
MetadataCondition(h, query) ==
  LET df == h[1]
      a == Alloc(h, DataFrame(True, df.order, df.rows))
  IN [heap |-> SetFalse(a.heap, a.id,
                        (df.rows \X df.cols) \ query_metadata(df, query.key, query.value)),
      id |-> a.id]

\* get_mod(df, curr) for a condition curr of the expression
Condition(query) ==
  /\ mpc = "get_mod"
  /\ Len(heap) + 2 <= MaxHeap
  /\ IF get_mod_raises(heap[1], query) # ""
       THEN /\ mpc' = "raised"
            /\ UNCHANGED <<heap, mstack>>
       ELSE LET a == IF IsComp(query) THEN CompCondition(heap, query)
                     ELSE MetadataCondition(heap, query)
            IN /\ heap' = a.heap
               /\ mstack' = Append(mstack, a.id)
               /\ UNCHANGED mpc
  /\ UNCHANGED <<mbefore, queryvars, annovars, exprvars, cachevars, viewvars, listvars>>

\* 'and' / 'or': prec & succ, prec | succ
MaskBin(curr) ==
  /\ mpc = "get_mod"
  /\ Len(mstack) >= 2
  /\ Len(heap) < MaxHeap
  /\ LET prec == TrueCells(heap[mstack[Len(mstack) - 1]])
         succ == TrueCells(heap[Top(mstack)])
         a == Alloc(heap, MaskFrame(heap[1], IF curr = "and" THEN prec \cap succ
                                             ELSE prec \cup succ))
     IN /\ heap' = a.heap
        /\ mstack' = Append(Pop(mstack, 2), a.id)
  /\ UNCHANGED <<mpc, mbefore, queryvars, annovars, exprvars, cachevars, viewvars, listvars>>

\* 'not': ~succ
MaskNot ==
  /\ mpc = "get_mod"
  /\ Len(mstack) >= 1
  /\ Len(heap) < MaxHeap
  /\ LET succ == heap[Top(mstack)]
         a == Alloc(heap, MaskFrame(heap[1], (DOMAIN succ.cell) \ TrueCells(succ)))
     IN /\ heap' = a.heap
        /\ mstack' = Append(Pop(mstack, 1), a.id)
  /\ UNCHANGED <<mpc, mbefore, queryvars, annovars, exprvars, cachevars, viewvars, listvars>>

\* the end of the expression: return get_mod(df, stack.pop())
ReturnMask ==
  /\ mpc = "get_mod"
  /\ Len(mstack) = 1
  /\ mpc' = "returned"
  /\ UNCHANGED <<heap, mstack, mbefore, queryvars, annovars, exprvars, cachevars, viewvars, listvars>>

NextGetMod ==
  \/ \E df \in ModFrames(tf_filter_list) : CallGetMod(df)
  \/ \E query \in Modifiers : Condition(query)
  \/ \E curr \in {"and", "or"} : MaskBin(curr)
  \/ MaskNot
  \/ ReturnMask

(***************************************************************************)
(* cache_view (utils/__init__.py) called by several requests for one cache *)
(* path, as CytoscapeJSONView and AnalysisEnrichmentView call it: no lock  *)
(* is held.  cfile is the state of the cache file: absent, partial (some   *)
(* cache_result has opened it with 'wb' and has not closed it) or          *)
(* complete.                                                               *)
(***************************************************************************)
Requests == {"q1", "q2", "q3"}

\* what pickle.load gives for a file that is being written: the gzip stream
\* has no end yet (EOFError), a block of it is not written yet (OSError), or
\* the pickle is already whole
PartialReads == {"EOFError", "OSError", "value"}

InitView ==
  /\ cfile = "absent"
  /\ cview = [r \in Requests |-> "cache_view"]
  /\ cgot = [r \in Requests |-> "none"]

\* read_cached_result(cache_path): the value, FileNotFoundError (caught by
\* cache_view), or what a partial file gives
ReadCachedResult(r) ==
  /\ cview[r] = "cache_view"
  /\ CASE cfile = "absent" ->
            /\ cview' = [cview EXCEPT ![r] = "func"]
            /\ UNCHANGED cgot
       [] cfile = "complete" ->
            /\ cview' = [cview EXCEPT ![r] = "return"]
            /\ cgot' = [cgot EXCEPT ![r] = "value"]
       [] OTHER ->
            \E got \in PartialReads :
              /\ cview' = [cview EXCEPT ![r] = "return"]
              /\ cgot' = [cgot EXCEPT ![r] = got]
  /\ UNCHANGED <<cfile, queryvars, annovars, exprvars, getmodvars, cachevars, listvars>>

\* result = func()
Func(r) ==
  /\ cview[r] = "func"
  /\ cview' = [cview EXCEPT ![r] = "cache_result"]
  /\ cgot' = [cgot EXCEPT ![r] = "value"]
  /\ UNCHANGED <<cfile, queryvars, annovars, exprvars, getmodvars, cachevars, listvars>>

\* cache_result: open_file(cache_name, 'wb') creates or truncates the file
OpenFile(r) ==
  /\ cview[r] = "cache_result"
  /\ cview' = [cview EXCEPT ![r] = "dump"]
  /\ cfile' = "partial"
  /\ UNCHANGED <<cgot, queryvars, annovars, exprvars, getmodvars, cachevars, listvars>>

\* cache_result: pickle.dump and the close of the file; the file is whole
\* when no other request has it open for writing
Dump(r) ==
  /\ cview[r] = "dump"
  /\ cview' = [cview EXCEPT ![r] = "return"]
  /\ cfile' = IF \E q \in Requests \ {r} : cview[q] = "dump" THEN "partial" ELSE "complete"
  /\ UNCHANGED <<cgot, queryvars, annovars, exprvars, getmodvars, cachevars, listvars>>

\* return result, or the exception leaves cache_view
ReturnView(r) ==
  /\ cview[r] = "return"
  /\ cview' = [cview EXCEPT ![r] = "done"]
  /\ UNCHANGED <<cfile, cgot, queryvars, annovars, exprvars, getmodvars, cachevars, listvars>>

(***************************************************************************)
(* User lists (utils/file.py).  A file of gene lists is a sequence of      *)
(* stripped lines: `>name` starts a list, any other line is a gene of the  *)
(* current list.  The result of get_gene_lists, network_to_lists and       *)
(* merge_network_lists is the pair (df, name_to_gene); df has the genes as *)
(* index and the columns User List and User List Count.                    *)
(***************************************************************************)
ListHeader(name) == [header |-> TRUE, text |-> name]
GeneLine(gene) == [header |-> FALSE, text |-> gene]

\* the lines of the files of the model; `net` is also the name of a network
FileLines == {ListHeader("L1"), ListHeader("net"), GeneLine("A"), GeneLine("B")}

\* the networks of get_network: the name of the file and the edges
Networks ==
  { [name |-> nm, edges |-> e] :
      nm \in {"net", "default"},
      e \in { << <<"A", "B">> >>, << <<"B", "C">>, <<"C", "A">> >> } }

\* the order of the gene ids in a sorted index
GeneRank(g) == CASE g = "A" -> 1 [] g = "B" -> 2 [] OTHER -> 3

\* an OrderedDict as its keys in order and its values
EmptyDict == [keys |-> << >>, val |-> << >>]

\* d.setdefault(key, set()).add(x) / .update(xs)
SetDefaultUpdate(d, key, xs) ==
  IF key \in Range(d.keys)
    THEN [d EXCEPT !.val = [@ EXCEPT ![key] = @ \cup xs]]
  ELSE [keys |-> Append(d.keys, key), val |-> (key :> xs) @@ d.val]

\* gene_list_to_df: the User List is the join of the names, the User List
\* Count their number
gene_list_to_df(gene_to_name) ==
  [index |-> gene_to_name.keys,
   list |-> [g \in Range(gene_to_name.keys) |-> <<gene_to_name.val[g]>>],
   count |-> [g \in Range(gene_to_name.keys) |-> Cardinality(gene_to_name.val[g])]]

UserListsOf(gene_to_name, name_to_gene) ==
  [called |-> TRUE, df |-> gene_list_to_df(gene_to_name), name_to_gene |-> name_to_gene]

\* get_gene_lists, the loop over the lines from line i on
RECURSIVE ReadLines(_, _, _, _, _)
ReadLines(f, i, list_name, gene_to_name, name_to_gene) ==
  IF i > Len(f) THEN UserListsOf(gene_to_name, name_to_gene)
  ELSE IF f[i].header
    THEN ReadLines(f, i + 1, f[i].text, gene_to_name, name_to_gene)
  ELSE ReadLines(f, i + 1, list_name,
                 SetDefaultUpdate(gene_to_name, f[i].text, {list_name}),
                 SetDefaultUpdate(name_to_gene, list_name, {f[i].text}))

get_gene_lists(f) == ReadLines(f, 1, "default_list", EmptyDict, EmptyDict)

\* data[['source', 'target']].stack().unique(): the genes in order of their
\* first occurrence
RECURSIVE Unique(_, _)
Unique(seq, seen) ==
  IF seq = << >> THEN << >>
  ELSE IF Head(seq) \in seen THEN Unique(Tail(seq), seen)
  ELSE <<Head(seq)>> \o Unique(Tail(seq), seen \cup {Head(seq)})

RECURSIVE Stack(_)
Stack(edges) ==
  IF edges = << >> THEN << >>
  ELSE <<Head(edges)[1], Head(edges)[2]>> \o Stack(Tail(edges))

\* network_to_lists
network_to_lists(network) ==
  LET genes == Unique(Stack(network.edges), {})
  IN UserListsOf([keys |-> genes, val |-> [g \in Range(genes) |-> {network.name}]],
                 [keys |-> <<network.name>>, val |-> (network.name :> Range(genes))])

\* the index of an outer merge: the union of the two, sorted
RECURSIVE SortGenes(_)
SortGenes(S) ==
  IF S = {} THEN << >>
  ELSE LET g == CHOOSE x \in S : \A y \in S : GeneRank(x) <= GeneRank(y)
       IN <<g>> \o SortGenes(S \ {g})

\* for k, v in user_lists[1].items(): name_to_gene.setdefault(k, set()).update(v)
RECURSIVE UpdateNames(_, _, _)
UpdateNames(name_to_gene, other, i) ==
  IF i > Len(other.keys) THEN name_to_gene
  ELSE UpdateNames(SetDefaultUpdate(name_to_gene, other.keys[i], other.val[other.keys[i]]),
                   other, i + 1)

\* x.fillna(0) of a column of the outer merge
FillNa(column, g) == IF g \in DOMAIN column THEN column[g] ELSE 0

\* df["User List Count_x"].fillna(0) + df["User List Count_y"].fillna(0)
MergedCount(x, y, g) == FillNa(x, g) + FillNa(y, g)

\* df["User List_x"].str.cat(df["User List_y"], sep=', ', na_rep='')
MergedNames(x, y, g) ==
  (IF g \in DOMAIN x THEN x[g] ELSE << >>) \o (IF g \in DOMAIN y THEN y[g] ELSE << >>)

\* merge_network_lists
merge_network_lists(user_lists, network) ==
  LET graph_lists == network_to_lists(network)
      genes == Range(graph_lists.df.index) \cup Range(user_lists.df.index)
  IN [called |-> TRUE,
      df |-> [index |-> SortGenes(genes),
              list |-> [g \in genes |-> MergedNames(graph_lists.df.list, user_lists.df.list, g)],
              count |-> [g \in genes |-> MergedCount(graph_lists.df.count,
                                                     user_lists.df.count, g)]],
      name_to_gene |-> UpdateNames(graph_lists.name_to_gene, user_lists.name_to_gene, 1)]

NoUserLists ==
  [called |-> FALSE, df |-> [index |-> << >>, list |-> << >>, count |-> << >>],
   name_to_gene |-> EmptyDict]

InitLists ==
  /\ gfile = << >>
  /\ glists = NoUserLists
  /\ gmerged = NoUserLists

\* a line of the uploaded file
AddLine(line) ==
  /\ ~glists.called
  /\ Len(gfile) < MaxLines
  /\ gfile' = Append(gfile, line)
  /\ UNCHANGED <<glists, gmerged, queryvars, annovars, exprvars, getmodvars, cachevars,
                 viewvars>>

\* user_lists = get_gene_lists(f)
GetGeneLists ==
  /\ ~glists.called
  /\ glists' = get_gene_lists(gfile)
  /\ UNCHANGED <<gfile, gmerged, queryvars, annovars, exprvars, getmodvars, cachevars,
                 viewvars>>

\* user_lists = network_to_lists(network), without a file of gene lists
NetworkToLists(network) ==
  /\ ~glists.called
  /\ gfile = << >>
  /\ glists' = network_to_lists(network)
  /\ UNCHANGED <<gfile, gmerged, queryvars, annovars, exprvars, getmodvars, cachevars,
                 viewvars>>

\* merge_network_lists(user_lists, network)
MergeNetworkLists(network) ==
  /\ glists.called
  /\ ~gmerged.called
  /\ gmerged' = merge_network_lists(glists, network)
  /\ UNCHANGED <<gfile, glists, queryvars, annovars, exprvars, getmodvars, cachevars,
                 viewvars>>

NextLists ==
  \/ \E line \in FileLines : AddLine(line)
  \/ GetGeneLists
  \/ \E network \in Networks : NetworkToLists(network)
  \/ \E network \in Networks : MergeNetworkLists(network)

(***************************************************************************)
(* The files under cache_path (see get_query_result with cache_path).       *)
(***************************************************************************)
\* a file that does not exist
NoFile == [given |-> FALSE, frame |-> NoFrame, rows |-> << >>, ids |-> {}, lists |-> NoLists]

\* DataFrame.to_pickle: the rows in their order, the columns, the cells and
\* the attributes include and filter_string
FramePickle(df, rows) == [NoFile EXCEPT !.given = TRUE, !.frame = df, !.rows = rows]

\* get_metadata(ids): the metadata records of the analyses
get_metadata(df) == {d \in AnalysisData : d[1] \in {c.an : c \in df.cols}}

MetadataPickle(ids) == [NoFile EXCEPT !.given = TRUE, !.ids = ids]

\* get_stats: the count of the EDGE / Log2FC cells of every (TF, analysis)
get_stats(df) ==
  [g \in {Group(c) : c \in {x \in df.cols : x.attr \in {"EDGE", "Log2FC"}}} |->
     Cardinality({p \in EdgeCells(df) : Group(p[2]) = g})]

NoFiles == [unfiltered |-> NoFile, tabular |-> NoFile, metadata |-> NoFile,
            target_genes |-> NoFile]

NoMeta == [metadata |-> {}, stats |-> << >>]

NotCached ==
  [called |-> FALSE, raised |-> FALSE, msg |-> "", rows |-> << >>,
   frame |-> NoFrame, user_lists |-> NoLists, metadata |-> {}, stats |-> << >>]

InitCache ==
  /\ cache = NoFiles
  /\ cached = NotCached
  /\ meta = NoMeta

InitWith(lists) ==
  /\ tf_filter_list \in lists
  /\ InitAnno
  /\ InitText
  /\ InitGetMod
  /\ InitCache
  /\ InitView
  /\ InitLists
  /\ stack = << >>
  /\ stack2 = << >>
  /\ dn = FALSE
  /\ uuid = 0
  /\ last = [op |-> "none", prec |-> NoFrame, succ |-> NoFrame]
  /\ tokens = 0
  /\ pc = "get_tf"
  /\ result = NoResult
  /\ result2 = NoResult
  /\ lastmod = [query |-> [key |-> "", oper |-> "", value |-> ""], prec |-> NoFrame,
                out |-> NoFrame, raised |-> ""]
  /\ qres = NotCalled

Init == InitWith(FilterLists)

\* a gene name: get_tf_data
Leaf(query) ==
  /\ pc = "get_tf"
  /\ Budget(1, Len(stack) + 1)
  /\ LET df == get_tf_data(query, tf_filter_list)
     IN /\ stack' = Append(stack, df)
        /\ stack2' = Append(stack2, df)
        /\ last' = [op |-> "leaf", prec |-> NoFrame, succ |-> NoFrame]
  /\ tokens' = tokens + 1
  /\ UNCHANGED <<tf_filter_list, dn, uuid, pc, result, result2, modvars, qrvars, annovars, restvars>>

\* 'not'
Not ==
  /\ pc = "get_tf"
  /\ Len(stack) >= 1
  /\ Budget(1, Len(stack))
  /\ stack' = Append(Pop(stack, 1), NotOp(Top(stack)))
  /\ stack2' = Append(Pop(stack2, 1), NotOp(Top(stack2)))
  /\ last' = [op |-> "not", prec |-> NoFrame, succ |-> Top(stack)]
  /\ tokens' = tokens + 1
  /\ UNCHANGED <<tf_filter_list, dn, uuid, pc, result, result2, modvars, qrvars, annovars, restvars>>

\* 'and' / 'or'
Bin(curr) ==
  /\ pc = "get_tf"
  /\ Len(stack) >= 2
  /\ Budget(1, Len(stack) - 1)
  /\ LET prec == stack[Len(stack) - 1]
         succ == Top(stack)
         df == BinOp(curr, prec, succ, uuid)
     IN /\ stack' = Append(Pop(stack, 2), df)
        /\ last' = [op |-> curr, prec |-> prec, succ |-> succ]
        /\ uuid' = IF UsesSuffix(prec, succ) THEN uuid + 2 ELSE uuid
  /\ stack2' = Append(Pop(stack2, 2), BinOp(curr, stack2[Len(stack2) - 1], Top(stack2), uuid))
  /\ tokens' = tokens + 1
  /\ UNCHANGED <<tf_filter_list, dn, pc, result, result2, modvars, qrvars, annovars, restvars>>

\* the second evaluation reads `not not x` where the first reads x
DoubleNot ==
  /\ pc = "get_tf"
  /\ ~dn
  /\ Len(stack2) >= 1
  /\ Budget(2, Len(stack2))
  /\ stack2' = Append(Pop(stack2, 1), NotOp(NotOp(Top(stack2))))
  /\ dn' = TRUE
  /\ UNCHANGED <<tf_filter_list, stack, uuid, last, tokens, pc, result, result2, modvars, qrvars, annovars, restvars>>

\* the end of the token list: parse_query checks the frame
ParseQuery ==
  /\ pc = "get_tf"
  /\ Len(stack) = 1
  /\ result' = parse_query(stack[1])
  /\ result2' = parse_query(stack2[1])
  /\ pc' = "done"
  /\ UNCHANGED <<tf_filter_list, stack, stack2, dn, uuid, last, tokens, modvars, qrvars, annovars, restvars>>

\* a modifier [key oper value] after an operand
Mod(query) ==
  /\ pc = "get_tf"
  /\ Len(stack) >= 1
  /\ Budget(3, Len(stack))
  /\ LET prec == Top(stack)
         exc == ModRaises(prec, query)
         exc2 == ModRaises(Top(stack2), query)
     IN /\ lastmod' = [query |-> query, prec |-> prec, raised |-> exc,
                       out |-> IF exc = "" THEN ModOp(prec, query) ELSE NoFrame]
        /\ IF exc = "" /\ exc2 = ""
             THEN /\ stack' = Append(Pop(stack, 1), ModOp(prec, query))
                  /\ stack2' = Append(Pop(stack2, 1), ModOp(Top(stack2), query))
                  /\ UNCHANGED <<pc, result, result2>>
             ELSE /\ result' = Escapes(exc)
                  /\ result2' = Escapes(exc2)
                  /\ pc' = "done"
                  /\ UNCHANGED <<stack, stack2>>
        /\ last' = [op |-> "mod", prec |-> prec, succ |-> NoFrame]
  /\ tokens' = tokens + 3
  /\ UNCHANGED <<tf_filter_list, dn, uuid, qrvars, annovars, restvars>>

Next ==
  \/ \E query \in QueryNames : Leaf(query)
  \/ Not
  \/ \E curr \in {"and", "or"} : Bin(curr)
  \/ ParseQuery

Spec == Init /\ [][Next]_vars

\* the two evaluations side by side
NextDN ==
  \/ \E query \in QueryNames : Leaf(query)
  \/ Not
  \/ \E curr \in {"and", "or"} : Bin(curr)
  \/ DoubleNot
  \/ ParseQuery

SpecDN == Init /\ [][NextDN]_vars

\* queries with modifiers
NextMod ==
  \/ \E query \in QueryNames : Leaf(query)
  \/ Not
  \/ \E curr \in {"and", "or"} : Bin(curr)
  \/ \E query \in Modifiers : Mod(query)
  \/ ParseQuery

SpecMod == Init /\ [][NextMod]_vars

\* one call of get_mod
SpecGetMod == Init /\ [][NextGetMod]_vars

\* a keyword: get_tf lower-cases it and calls get_all_tf, whose ValueError
\* nothing catches
AllTF(query) ==
  /\ pc = "get_tf"
  /\ Budget(1, Len(stack) + 1)
  /\ LET exc == get_all_tf_raises(query, tf_filter_list)
         df == get_all_tf(query, tf_filter_list)
     IN IF exc = ""
          THEN /\ stack' = Append(stack, df)
               /\ stack2' = Append(stack2, df)
               /\ UNCHANGED <<pc, result, result2>>
          ELSE /\ result' = Escapes(exc)
               /\ result2' = Escapes(exc)
               /\ pc' = "done"
               /\ UNCHANGED <<stack, stack2>>
  /\ last' = [op |-> query, prec |-> NoFrame, succ |-> NoFrame]
  /\ tokens' = tokens + 1
  /\ UNCHANGED <<tf_filter_list, dn, uuid, modvars, qrvars, annovars, restvars>>

InitAll == InitWith(FilterListsAll)

\* queries of gene names and keywords
NextAll ==
  \/ tokens < MaxQueryTokens /\ \E query \in QueryNames : Leaf(query)
  \/ tokens < MaxQueryTokens /\ \E query \in Keywords : AllTF(query)
  \/ tokens < MaxQueryTokens /\ Not
  \/ tokens < MaxQueryTokens /\ \E curr \in {"and", "or"} : Bin(curr)
  \/ ParseQuery

SpecAll == InitAll /\ [][NextAll]_vars

\* get_query_result(query, user_lists, tf_filter_list, size_limit=size_limit)
\* for the query that has been read
GetQueryResult(user_lists, size_limit) ==
  /\ pc = "get_tf"
  /\ Len(stack) = 1
  /\ LET pq == parse_query(stack[1])
         exc == get_query_result_raises(pq, user_lists, size_limit)
     IN /\ result' = pq
        /\ result2' = parse_query(stack2[1])
        /\ IF exc # ""
             THEN qres' = Failed(exc, Filtered(pq.frame, user_lists), user_lists, size_limit)
             ELSE \E base \in Perms(Filtered(pq.frame, user_lists).rows) :
                    qres' = get_query_result(pq, user_lists, size_limit, base)
  /\ pc' = "done"
  /\ UNCHANGED <<tf_filter_list, stack, stack2, dn, uuid, last, tokens, modvars, annovars, restvars>>

NextQR ==
  \/ tokens < MaxQueryTokens /\ \E query \in QueryNames : Leaf(query)
  \/ tokens < MaxQueryTokens /\ Not
  \/ tokens < MaxQueryTokens /\ \E curr \in {"and", "or"} : Bin(curr)
  \/ \E user_lists \in UserLists, size_limit \in SizeLimits :
       GetQueryResult(user_lists, size_limit)

SpecQR == Init /\ [][NextQR]_vars

(***************************************************************************)
(* get_query_result with cache_path.  A call with a query writes the       *)
(* pickles tabular_output_unfiltered, tabular_output and metadata under    *)
(* cache_path; a call without a query reads them, and reads user_lists     *)
(* from target_genes.pickle.gz when that file exists.  No code of the      *)
(* repository writes target_genes.pickle.gz.                               *)
(***************************************************************************)
\* the files the call with a query leaves: none when parse_query raises, the
\* unfiltered table when the filtered one is empty, all three otherwise
CacheWritten(pq, user_lists, base) ==
  IF pq.raised THEN NoFiles
  ELSE IF Empty(Filtered(pq.frame, user_lists))
    THEN [NoFiles EXCEPT !.unfiltered = FramePickle(pq.frame, << >>)]
  ELSE [NoFiles EXCEPT !.unfiltered = FramePickle(pq.frame, << >>),
                       !.tabular = FramePickle(Filtered(pq.frame, user_lists), base),
                       !.metadata = MetadataPickle(get_metadata(pq.frame))]

\* get_query_result(query, user_lists, size_limit=size_limit, cache_path=output)
GetQueryResultCache(user_lists, size_limit) ==
  /\ pc = "get_tf"
  /\ Len(stack) = 1
  /\ LET pq == parse_query(stack[1])
         exc == get_query_result_raises(pq, user_lists, size_limit)
     IN /\ result' = pq
        /\ result2' = parse_query(stack2[1])
        /\ \E base \in Perms(Filtered(pq.frame, user_lists).rows) :
             /\ cache' = CacheWritten(pq, user_lists, base)
             /\ IF exc # ""
                  THEN /\ qres' = Failed(exc, Filtered(pq.frame, user_lists), user_lists,
                                         size_limit)
                       /\ UNCHANGED meta
                  ELSE /\ qres' = get_query_result(pq, user_lists, size_limit, base)
                       /\ meta' = [metadata |-> get_metadata(pq.frame),
                                   stats |-> get_stats(pq.frame)]
  /\ pc' = "done"
  /\ UNCHANGED <<tf_filter_list, stack, stack2, dn, uuid, last, tokens, modvars, annovars,
                 exprvars, getmodvars, cached, viewvars, listvars>>

\* user_lists of the call without a query: the content of
\* target_genes.pickle.gz, None on FileNotFoundError
CachedUserLists(files) ==
  IF files.target_genes.given THEN files.target_genes.lists ELSE NoLists

\* get_query_result(cache_path=output): pd.read_pickle raises
\* FileNotFoundError for a missing file
GetCachedResult ==
  /\ pc = "done"
  /\ qres.called
  /\ ~cached.called
  /\ IF ~cache.tabular.given \/ ~cache.metadata.given \/ ~cache.unfiltered.given
       THEN cached' = [NotCached EXCEPT !.called = TRUE, !.raised = TRUE,
                                        !.msg = "FileNotFoundError"]
       ELSE LET df == cache.tabular.frame
                base == cache.tabular.rows
                user_lists == CachedUserLists(cache)
                merged == IF user_lists.given THEN SortUserList(base, user_lists) ELSE base
            IN cached' = [called |-> TRUE, raised |-> FALSE, msg |-> "",
                          rows |-> SortTFCount(merged, df), frame |-> df,
                          user_lists |-> user_lists,
                          metadata |-> cache.metadata.ids,
                          stats |-> get_stats(cache.unfiltered.frame)]
  /\ UNCHANGED <<queryvars, annovars, exprvars, getmodvars, cache, meta, viewvars, listvars>>

NextCache ==
  \/ tokens < MaxQueryTokens /\ \E query \in QueryNames : Leaf(query)
  \/ tokens < MaxQueryTokens /\ Not
  \/ tokens < MaxQueryTokens /\ \E curr \in {"and", "or"} : Bin(curr)
  \/ \E user_lists \in UserLists, size_limit \in SizeLimits :
       GetQueryResultCache(user_lists, size_limit)
  \/ GetCachedResult

SpecCache == Init /\ [][NextCache]_vars

\* the loader thread and the reading threads
NextAnno ==
  \/ FetchRow
  \/ FetchDone
  \/ FetchFail
  \/ Acquire
  \/ Store
  \/ Release
  \/ \E r \in Readers, kind \in {"call", "genes"} : Call(r, kind)
  \/ \E r \in Readers : GenesCheck(r)
  \/ \E r \in Readers : Check(r)
  \/ \E r \in Readers : Join(r)
  \/ \E r \in Readers : Return(r)
  \/ \E r \in Readers : GenesReturn(r)

\* no query is evaluated
InitLoader == InitWith({NoneList})

SpecAnno == InitLoader /\ [][NextAnno]_vars

\* the user lists of an upload
SpecLists == InitLoader /\ [][NextLists]_vars

\* the requests that call cache_view for one cache path
NextView ==
  \/ \E r \in Requests : ReadCachedResult(r)
  \/ \E r \in Requests : Func(r)
  \/ \E r \in Requests : OpenFile(r)
  \/ \E r \in Requests : Dump(r)
  \/ \E r \in Requests : ReturnView(r)

SpecView == InitLoader /\ [][NextView]_vars

\* query texts
NextText ==
  \/ \E tok \in TextTokens : Type(tok)
  \/ ParseText

SpecText == InitLoader /\ [][NextText]_vars

(***************************************************************************)
(* Properties.                                                             *)
(***************************************************************************)
\* the frame the last operation pushed
Pushed == Top(stack)

\* column c of a result stems from column o of an operand: the same analysis
\* and attribute, and the operand's TF label, possibly with suffixes appended
StemsFrom(c, o) ==
  /\ c.an = o.an
  /\ c.attr = o.attr
  /\ c.tf.name = o.tf.name
  /\ Len(c.tf.sfx) >= Len(o.tf.sfx)
  /\ SubSeq(c.tf.sfx, 1, Len(o.tf.sfx)) = o.tf.sfx

\* every value of operand o on a row of df is carried by a column of df
Carries(df, o) ==
  \A p \in DOMAIN o.cell :
    p[1] \in df.rows =>
      \E c \in df.cols : StemsFrom(c, p[2]) /\ NotNa(df, p[1], c) /\ df.cell[<<p[1], c>>] = o.cell[p]

\* every column of df stems from a column of operand o, with o's values
OnlyFrom(df, o) ==
  /\ df.cols \subseteq o.cols
  /\ \A p \in DOMAIN df.cell : p \in DOMAIN o.cell /\ df.cell[p] = o.cell[p]

AndTT == last.op = "and" /\ last.prec.include /\ last.succ.include

\* C1: AND of two operands that both have include=true pushes a frame whose
\* row ids are exactly the intersection of the operands' row ids, that has
\* include=true, and whose columns come from both operands: every column
\* stems from a column of prec or of succ, and every value either operand has
\* on a common row is carried over.
C1_AndBothIncluded ==
  AndTT =>
    /\ Pushed.rows = last.prec.rows \cap last.succ.rows
    /\ Pushed.include
    /\ \A c \in Pushed.cols : \E o \in last.prec.cols \cup last.succ.cols : StemsFrom(c, o)
    /\ Carries(Pushed, last.prec)
    /\ Carries(Pushed, last.succ)

\* C1 witness: `TF1 and TF3`: common rows, and a column of each operand
C1_Witness ==
  /\ AndTT
  /\ Pushed.rows # {}
  /\ last.prec.rows # last.succ.rows
  /\ \E c \in Pushed.cols : c.tf.name = "TF1"
  /\ \E c \in Pushed.cols : c.tf.name = "TF3"

AndMixed == last.op = "and" /\ last.prec.include # last.succ.include

\* the included and the negated operand of the last operation
Positive == IF last.prec.include THEN last.prec ELSE last.succ
Negative == IF last.prec.include THEN last.succ ELSE last.prec

\* C2: AND of an include=true operand P and an include=false operand N
\* pushes exactly the rows of P that are not rows of N, with columns and
\* values of P only and include=true, on whichever side N is; the operands
\* swapped give the same rows.
C2_AndNot ==
  AndMixed =>
    /\ Pushed.rows = Positive.rows \ Negative.rows
    /\ OnlyFrom(Pushed, Positive)
    /\ Pushed.include
    /\ BinOp("and", last.succ, last.prec, uuid).rows = Pushed.rows

\* C2 witness: `not B and A` where B removes a row of A and leaves another
C2_Witness ==
  /\ AndMixed
  /\ ~last.prec.include
  /\ Pushed.rows # {}
  /\ Pushed.rows # last.succ.rows

BothExcluded == last.op \in {"and", "or"} /\ ~last.prec.include /\ ~last.succ.include

\* C3: for two operands that both have include=false the pushed frame has
\* include=false, and its row ids are the union of the operands' row ids
\* for AND and the intersection for OR.
C3_BothExcluded ==
  BothExcluded =>
    /\ ~Pushed.include
    /\ Pushed.rows = IF last.op = "and" THEN last.prec.rows \cup last.succ.rows
                     ELSE last.prec.rows \cap last.succ.rows

OrTT == last.op = "or" /\ last.prec.include /\ last.succ.include

\* C4: OR of two operands that both have include=true pushes a frame whose
\* row ids are exactly the union of the operands' row ids, with include=true.
C4_OrBothIncluded ==
  OrTT =>
    /\ Pushed.rows = last.prec.rows \cup last.succ.rows
    /\ Pushed.include

\* C4 witness: `TF1 or TF2`, each operand with a row the other lacks
C4_Witness ==
  /\ OrTT
  /\ last.prec.rows \ last.succ.rows # {}
  /\ last.succ.rows \ last.prec.rows # {}

OrMixed == last.op = "or" /\ last.prec.include # last.succ.include

\* C5: OR of an include=true operand P and an include=false operand N pushes
\* exactly P's rows, with columns and values of P only and include=true, on
\* whichever side N is; `TF1 or not TF2` with TF1 rows {A, B} and TF2 rows
\* {C} yields rows {A, B}.
C5_OrNot ==
  /\ OrMixed =>
       /\ Pushed.rows = Positive.rows
       /\ OnlyFrom(Pushed, Positive)
       /\ Pushed.include
  /\ (/\ last.op = "or"
      /\ last.prec.filter_string = <<"TF1">>
      /\ last.succ.filter_string = <<"not ", "TF2">>
      /\ last.prec.rows = {"A", "B"}
      /\ last.succ.rows = {"C"}) => Pushed.rows = {"A", "B"}

\* C5 witness: `not N or P` where N has a row of P
C5_Witness ==
  /\ OrMixed
  /\ ~last.prec.include
  /\ last.prec.rows \cap last.succ.rows # {}
  /\ Pushed.rows # {}

\* C6: parse_query returns a frame only if the frame get_tf evaluated has
\* include=true and is not empty; otherwise it raises the QueryError
\* 'empty query'.  A returned frame has include=true.
C6_ParseQuery ==
  pc = "done" =>
    /\ result.raised <=> (Empty(stack[1]) \/ ~stack[1].include)
    /\ result.raised => result.msg = "empty query"
    /\ ~result.raised => result.frame.include /\ result.frame.rows = stack[1].rows

\* C6 witness: a query such as `not TF1`: a frame with rows and columns and
\* include=false is refused
C6_Witness ==
  /\ pc = "done"
  /\ result.raised
  /\ ~Empty(stack[1])
  /\ ~stack[1].include

\* C7: NOT negates include and prefixes filter_string with `not `; the row
\* ids, the columns and the cell values of its operand are unchanged.
C7_Not ==
  last.op = "not" =>
    /\ Pushed.include = ~last.succ.include
    /\ Pushed.filter_string = <<"not ">> \o last.succ.filter_string
    /\ Pushed.rows = last.succ.rows
    /\ Pushed.cols = last.succ.cols
    /\ Pushed.cell = last.succ.cell

\* C7 witness: NOT of a frame that has values
C7_Witness ==
  /\ last.op = "not"
  /\ DOMAIN last.succ.cell # {}
  /\ Len(last.succ.filter_string) > 1

\* a column label without the filter strings of its suffixes (the uuid4
\* tokens are kept)
EraseFS(c) == [c EXCEPT !.tf.sfx = [i \in 1..Len(c.tf.sfx) |-> c.tf.sfx[i][2]]]

\* two frames that agree up to the filter strings inside the suffixes
SameUpToFS(f, g) ==
  /\ f.rows = g.rows
  /\ f.include = g.include
  /\ {EraseFS(c) : c \in f.cols} = {EraseFS(c) : c \in g.cols}
  /\ \A p \in DOMAIN f.cell : \E q \in DOMAIN g.cell :
       q[1] = p[1] /\ EraseFS(q[2]) = EraseFS(p[2]) /\ g.cell[q] = f.cell[p]
  /\ \A q \in DOMAIN g.cell : \E p \in DOMAIN f.cell :
       q[1] = p[1] /\ EraseFS(q[2]) = EraseFS(p[2]) /\ g.cell[q] = f.cell[p]

NoSuffix(f) == \A c \in f.cols : c.tf.sfx = << >>

LeafOperands ==
  {get_tf_data(q, tf_filter_list) : q \in QueryNames}
    \cup {NotOp(get_tf_data(q, tf_filter_list)) : q \in QueryNames}

\* C9: for operands of equal polarity AND and OR are commutative and
\* associative on row sets: for the two operands b, c on top of the stack
\* and every leaf operand a of the same polarity, `b op c` and `c op b`
\* have the same rows, and so have `(a op b) op c` and `a op (b op c)`.
C9_CommutativeAssociative ==
  Len(stack) >= 2 =>
    LET b == stack[Len(stack) - 1]
        c == Top(stack)
    IN b.include = c.include =>
         \A curr \in {"and", "or"} :
           /\ BinOp(curr, b, c, uuid).rows = BinOp(curr, c, b, uuid).rows
           /\ \A a \in LeafOperands :
                a.include = b.include =>
                  BinOp(curr, BinOp(curr, a, b, uuid), c, uuid + 2).rows
                    = BinOp(curr, a, BinOp(curr, b, c, uuid), uuid + 2).rows

SameGeneTwice ==
  /\ AndTT
  /\ last.prec = last.succ
  /\ Len(last.prec.filter_string) = 1

\* the columns of df that stem from the operand column o
Copies(df, o) == {c \in df.cols : StemsFrom(c, o)}

\* C10 as claimed: `gene1 and gene1`, for a gene1 with recorded
\* interactions, has one column per (TF, analysis, attribute) triple of
\* gene1's table.
C10_NoDuplicateColumns ==
  (SameGeneTwice /\ last.prec.rows # {}) => \A o \in last.prec.cols : Cardinality(Copies(Pushed, o)) = 1

\* C10 as amended: for a gene1 with recorded interactions `gene1 and gene1`
\* keeps gene1's rows and has two columns per triple of gene1's table, one
\* of each operand, with distinct TF labels (the operand's filter string and
\* a unique token are appended) and gene1's values in both.
C10_TwoColumnsPerTriple ==
  (SameGeneTwice /\ last.prec.rows # {}) =>
    /\ Pushed.rows = last.prec.rows
    /\ \A o \in last.prec.cols :
         /\ Cardinality(Copies(Pushed, o)) = 2
         /\ \A c \in Copies(Pushed, o) :
              /\ c.tf # o.tf
              /\ \A r \in Pushed.rows :
                   /\ NotNa(Pushed, r, c) <=> NotNa(last.prec, r, o)
                   /\ NotNa(Pushed, r, c) => Pushed.cell[<<r, c>>] = last.prec.cell[<<r, o>>]

\* C10 witness: `TF3 and TF3`, a table of two analyses
C10_Witness ==
  /\ SameGeneTwice
  /\ Cardinality(last.prec.cols) > 1
  /\ Cardinality(Pushed.cols) = 2 * Cardinality(last.prec.cols)

(***************************************************************************)
(* Modifiers (SpecMod).                                                    *)
(***************************************************************************)
\* the rows of df with a recorded p-value below t in at least one analysis
PvalueBelow(df, t) ==
  {r \in df.rows : \E c \in df.cols :
     /\ c.attr = "Pvalue"
     /\ NotNa(df, r, c)
     /\ df.cell[<<r, c>>].num < t}

\* `X and Y[PVALUE<t]`: the 'and' of an included X and the frame the last
\* modifier, a p-value threshold on an included Y, pushed
AndAfterPvalue ==
  /\ last.op = "and"
  /\ lastmod.raised = ""
  /\ lastmod.query.key = "PVALUE"
  /\ lastmod.query.oper = "<"
  /\ Float(lastmod.query.value).ok
  /\ last.succ = lastmod.out
  /\ last.prec.include
  /\ last.succ.include

\* C11: for `X and Y[PVALUE<t]` the rows of the result are exactly the rows
\* of X that are rows of Y with a recorded p-value below t in at least one
\* analysis; the rows of Y whose p-values all fail are removed before the AND.
C11_AndPvalue ==
  AndAfterPvalue =>
    Pushed.rows = last.prec.rows \cap PvalueBelow(lastmod.prec, Float(lastmod.query.value).num)

\* `TF1 and TF3[PVALUE<0.05]`: A and B are rows of both, A fails the threshold
C11_Witness ==
  /\ AndAfterPvalue
  /\ last.prec = get_tf_data("TF1", tf_filter_list)
  /\ lastmod.prec = get_tf_data("TF3", tf_filter_list)
  /\ lastmod.query.value = "0.05"
  /\ "A" \in last.prec.rows \cap lastmod.prec.rows
  /\ Pushed.rows = {"B"}

\* the mask of the last modifier holds for no cell of its operand
SelectsNoCell ==
  /\ last.op = "mod"
  /\ IsComp(lastmod.query) => Float(lastmod.query.value).ok
  /\ (DOMAIN lastmod.prec.cell) \cap get_mod(lastmod.prec, lastmod.query) = {}

\* C12: when the mask of a modifier selects no cell of its operand, the
\* modifier yields an empty table, for which parse_query raises the
\* QueryError of an empty result; no other exception escapes.
C12_ModifierSelectsNothing ==
  SelectsNoCell =>
    /\ lastmod.raised = ""
    /\ Empty(Pushed)
    /\ parse_query(Pushed) = QueryError

\* C13: a PVALUE or FC condition whose value is no number raises nothing:
\* the mask is false for every cell of every group (the frame pushed has no
\* row and no column) and the evaluation continues.
C13_NonNumericValue ==
  (last.op = "mod" /\ IsComp(lastmod.query) /\ ~Float(lastmod.query.value).ok) =>
    /\ lastmod.raised = ""
    /\ pc = "get_tf"
    /\ Pushed.rows = {}
    /\ Pushed.cols = {}

(***************************************************************************)
(* reorder_data.  The frames it is given are the results of queries; next  *)
(* to the frame a on the stack the properties consider `a or b` and        *)
(* `b or a` for the operands b that one gene name and one modifier give.   *)
(***************************************************************************)
ModOperands ==
  {ModOp(get_tf_data(q[1], tf_filter_list), q[2]) :
     q \in {x \in QueryNames \X Modifiers :
              ModRaises(get_tf_data(x[1], tf_filter_list), x[2]) = ""}}

\* the frames parse_query hands to reorder_data
Results ==
  IF Len(stack) = 1 /\ pc = "get_tf"
    THEN {f \in {stack[1]} \cup {BinOp("or", stack[1], b, uuid) : b \in ModOperands}
                    \cup {BinOp("or", b, stack[1], uuid) : b \in ModOperands} :
            ~RaisesQueryError(f)}
  ELSE {}

SameTable(f, g) == f.rows = g.rows /\ f.cols = g.cols /\ f.cell = g.cell

\* C14: reorder_data gives two tables with the same rows, column triples and
\* cell values, whose columns come in different orders, the same column order.
C14_ReorderOrderIndependent ==
  \A f, g \in Results :
    SameTable(f, g) => reorder_data(f).order = reorder_data(g).order

\* the TFs by non-increasing count, the analyses of a TF by non-increasing count
SortedByCount(df) ==
  \A i, j \in DOMAIN df.order :
    i < j =>
      /\ TFCount(df, df.order[i].tf) >= TFCount(df, df.order[j].tf)
      /\ df.order[i].tf = df.order[j].tf =>
           AnalysisCount(df, df.order[i].an) >= AnalysisCount(df, df.order[j].an)

IsPermutation(s, t) ==
  /\ Len(s) = Len(t)
  /\ \A i \in DOMAIN s : \E j \in DOMAIN t : t[j] = s[i]
  /\ \A i, j \in DOMAIN t : i # j => t[i] # t[j]

\* C15: after reorder_data the TFs come in non-increasing order of their count
\* of non-missing cells and, within a TF, its analyses in non-increasing order
\* of theirs; the columns are permuted, none is added, removed or changed.
C15_ReorderSorted ==
  \A f \in Results :
    /\ SortedByCount(reorder_data(f))
    /\ IsPermutation(f.order, reorder_data(f).order)
    /\ SameTable(f, reorder_data(f))

(***************************************************************************)
(* get_query_result (SpecQR).                                              *)
(***************************************************************************)
\* get_query_result was given a size_limit that the table parse_query
\* returned exceeds, and a user list that leaves some of its rows
OverLimitUnfiltered ==
  /\ qres.called
  /\ ~result.raised
  /\ qres.size_limit.given
  /\ Size(result.frame) > qres.size_limit.n
  /\ ~Empty(qres.frame)

\* C16: the size_limit guard compares the limit with the size of the
\* unfiltered table: a query whose unfiltered table exceeds size_limit fails
\* with "Result too large." also when the table restricted to the user
\* list is within the limit.
C16_SizeLimitUnfiltered ==
  OverLimitUnfiltered => qres.raised /\ qres.msg = "Result too large."

Returns == qres.called /\ ~qres.raised

TFCountOf(i) == get_tf_count(qres.frame, qres.rows[i])

\* the order of two rows before the final sort: by User List Count, then User
\* List, when user lists were supplied, and else as in the frame
Before(r, q) ==
  LET ul == qres.user_lists
  IN IF ul.given /\ <<ul.count[r], ul.list[r]>> # <<ul.count[q], ul.list[q]>>
       THEN \/ ul.count[r] < ul.count[q]
            \/ ul.count[r] = ul.count[q] /\ ul.list[r] < ul.list[q]
     ELSE Pos(qres.base, r) < Pos(qres.base, q)

\* C17: the rows of the table returned are in non-increasing order of TF
\* Count, and rows of equal TF Count keep the order they had before the final
\* sort; the rows are those of the (filtered) result.
C17_SortedByTFCount ==
  Returns =>
    /\ IsPermutation(qres.base, qres.rows)
    /\ \A i, j \in DOMAIN qres.rows :
         i < j =>
           /\ TFCountOf(i) >= TFCountOf(j)
           /\ TFCountOf(i) = TFCountOf(j) => Before(qres.rows[i], qres.rows[j])

\* three rows with user lists: the row of the largest TF Count comes first
\* although it is the last by User List Count, the two of equal TF Count
\* and equal user lists follow in the order of the frame
C17_Witness ==
  /\ Returns
  /\ qres.user_lists.given
  /\ Len(qres.rows) = 3
  /\ TFCountOf(1) > TFCountOf(2)
  /\ TFCountOf(2) = TFCountOf(3)
  /\ qres.user_lists.count[qres.rows[1]] > qres.user_lists.count[qres.rows[2]]
  /\ Pos(qres.base, qres.rows[2]) < Pos(qres.base, qres.rows[3])

(***************************************************************************)
(* Leaf fetches without matching data.                                     *)
(***************************************************************************)
\* an empty table with a valid column structure and include = true
EmptyButValid(df) == df.rows = {} /\ df.cols # {} /\ df.include

\* the leaf that was read last is a gene name without data: an unknown gene
\* or one that tf_filter_list excludes
BareGeneWithoutData ==
  /\ last.op = "leaf"
  /\ stack # << >>
  /\ Top(stack).rows = {}

\* the leaf that was read last is a keyword for which no interaction matches
KeywordWithoutData ==
  /\ last.op \in Keywords
  /\ all_tf_qs(last.op, tf_filter_list) = {}

\* C18: a leaf fetch for which no matching data exists (a bare gene name or
\* one of the keywords andalltfs, oralltfs, multitype) raises nothing and
\* returns an empty table with a valid column structure and include = true
C18_LeafFetchWithoutData ==
  /\ BareGeneWithoutData => EmptyButValid(Top(stack))
  /\ KeywordWithoutData =>
       /\ ~result.raised
       /\ stack # << >>
       /\ EmptyButValid(Top(stack))

(***************************************************************************)
(* The annotation cache.                                                   *)
(***************************************************************************)
\* the tables the loader stores: all records, or the substitute without rows
Complete(a) == a = AnnoFrame(AnnotationGenes) \/ (failed /\ a = AnnoFrame({}))

\* C19: a reader that calls annotations() or annotations.genes while the
\* loader runs goes on only after the loader has stored the table; no call
\* returns None or a partially built table, and every call returns the one
\* table that has been stored
C19_ReadersWaitForLoader ==
  \A r \in Readers :
    /\ readers[r].pc \in {"return", "genes_return"} => anno.given /\ Complete(anno)
    /\ readers[r].pc = "join" /\ task.pc # "dead" => ~readers[r].ret.given
    /\ readers[r].ret.given =>
         /\ ~readers[r].ret.raised
         /\ readers[r].ret.value.given
         /\ Complete(readers[r].ret.value)
         /\ readers[r].ret.value = anno
         /\ readers[r].ret.kind = "genes" => readers[r].ret.genes = anno.index

\* one reader has waited for the loader and got the table with all records,
\* the other got the same table without waiting
C19_Witness ==
  \E r, q \in Readers :
    /\ r # q
    /\ readers[r].ret.given /\ readers[r].waited
    /\ readers[q].ret.given /\ ~readers[q].waited
    /\ readers[r].ret.value = AnnoFrame(AnnotationGenes)
    /\ readers[q].ret.value = readers[r].ret.value

\* C20: when the load fails, a warning is emitted, the cache ends up with a
\* table without rows that has the columns Full Name, Gene Family, Type,
\* Name, id, and every later read returns that table, not None or an
\* exception
C20_FailedLoadGivesEmptyTable ==
  failed =>
    /\ warned
    /\ task.pc \in {"release", "dead"} =>
         anno = [given |-> TRUE, index |-> {},
                 columns |-> <<"Full Name", "Gene Family", "Type", "Name", "id">>]
    /\ \A r \in Readers :
         readers[r].ret.given =>
           /\ ~readers[r].ret.raised
           /\ readers[r].ret.value.given
           /\ readers[r].ret.value.index = {}
           /\ readers[r].ret.value.columns = <<"Full Name", "Gene Family", "Type", "Name", "id">>
           /\ readers[r].ret.genes = {}

\* the load has failed, the loader has ended and both kinds of read have
\* returned
C20_Witness ==
  /\ failed
  /\ task.pc = "dead"
  /\ \E r, q \in Readers :
       /\ readers[r].ret.given /\ readers[r].ret.kind = "call"
       /\ readers[q].ret.given /\ readers[q].ret.kind = "genes"

(***************************************************************************)
(* Tables of get_tf (SpecMod).                                             *)
(***************************************************************************)
\* the column index of df holds no label twice
DistinctColumns(df) ==
  /\ \A i, j \in DOMAIN df.order : i # j => df.order[i] # df.order[j]
  /\ Cardinality(df.cols) = Len(df.order)

GroupNotEmpty(df, c) ==
  \E r \in df.rows, d \in df.cols : Group(d) = Group(c) /\ NotNa(df, r, d)

\* C22: after every AND or OR step, in all four polarity cases, every
\* (TF, analysis) column group of the table that is pushed has at least one
\* non-missing cell in some row
C22_NoEmptyColumnGroup ==
  last.op \in {"and", "or"} => \A c \in Pushed.cols : GroupNotEmpty(Pushed, c)

\* an AND that returns one operand alone, without some rows: a column group
\* of the operand has lost its values and is gone, another is kept
C22_Witness ==
  /\ last.op = "and"
  /\ last.prec.include /\ ~last.succ.include
  /\ Pushed.cols # {}
  /\ Pushed.cols # last.prec.cols
  /\ Pushed.cols \subseteq last.prec.cols

\* the cells of the operand of the last modifier that its mask holds True for
KeptCells == (DOMAIN lastmod.prec.cell) \cap get_mod(lastmod.prec, lastmod.query)

\* a modifier has been applied and nothing was raised
ModApplied == lastmod.query.key # "" /\ lastmod.raised = ""

\* C23: modifier application keeps exactly the cells of the operand where
\* the mask is true, with their values, removes the rows and the (TF,
\* analysis) column groups without a remaining cell, appends the text of the
\* modifier in brackets to filter_string and leaves include as it was
C23_ModifierApplication ==
  ModApplied =>
    /\ DOMAIN lastmod.out.cell = KeptCells
    /\ \A p \in KeptCells : lastmod.out.cell[p] = lastmod.prec.cell[p]
    /\ lastmod.out.rows = {p[1] : p \in KeptCells}
    /\ lastmod.out.cols =
         {c \in lastmod.prec.cols : \E p \in KeptCells : Group(p[2]) = Group(c)}
    /\ Range(lastmod.out.order) = lastmod.out.cols
    /\ lastmod.out.filter_string =
         lastmod.prec.filter_string
           \o <<"[", lastmod.query.key, lastmod.query.oper, lastmod.query.value, "]">>
    /\ lastmod.out.include = lastmod.prec.include

\* a modifier on a negated operand that keeps some rows and column groups
\* and removes others
C23_Witness ==
  /\ ModApplied
  /\ ~lastmod.prec.include
  /\ lastmod.out.rows # {}
  /\ lastmod.out.rows # lastmod.prec.rows
  /\ lastmod.out.cols # lastmod.prec.cols

(***************************************************************************)
(* De Morgan's laws on the negative representation (Spec).                 *)
(***************************************************************************)
\* the last step is `not a or not b` or `not a and not b`
BothNegated ==
  /\ last.op \in {"and", "or"}
  /\ ~last.prec.include
  /\ ~last.succ.include

\* `not (a and b)` for the step `not a or not b`, `not (a or b)` for the step
\* `not a and not b`, a and b the operands before their negation
NegatedDual ==
  NotOp(BinOp(IF last.op = "or" THEN "and" ELSE "or",
              NotOp(last.prec), NotOp(last.succ), uuid))

\* C24: for include = true tables a and b, `not a or not b` has the rows and
\* the include flag of `not (a and b)`, and `not a and not b` those of
\* `not (a or b)`
C24_DeMorgan ==
  BothNegated =>
    /\ Pushed.rows = NegatedDual.rows
    /\ Pushed.include = NegatedDual.include

(***************************************************************************)
(* Precedence and associativity (SpecText).  The grouping the claim states *)
(* is computed on the text itself: a text with `or` is split at its last   *)
(* `or`, one without `or` at its last `and`; then a leading `not` applies  *)
(* to the rest, then a trailing modifier to what precedes it.              *)
(***************************************************************************)
Spellings(kw) ==
  CASE kw = "and" -> {"and", "AND"} [] kw = "or" -> {"or", "OR"} [] OTHER -> {"not", "NOT"}

IsKeyword(tok, kw) == tok.k = "str" /\ tok.s \in Spellings(kw)

IsGene(tok) ==
  tok.k = "str" /\ tok.s \notin Spellings("and") \cup Spellings("or") \cup Spellings("not")

\* the position of the last kw of toks, 0 if there is none
LastKeyword(toks, kw) ==
  LET I == {i \in DOMAIN toks : IsKeyword(toks[i], kw)}
  IN IF I = {} THEN 0 ELSE CHOOSE i \in I : \A j \in I : j <= i

Malformed == [ok |-> FALSE, raised |-> "", frame |-> NoFrame, u |-> 0]
Grouped(v) == [ok |-> TRUE, raised |-> v.raised, frame |-> v.frame, u |-> v.u]

GroupedBin(op, l, r) ==
  IF ~l.ok \/ ~r.ok THEN Malformed
  ELSE IF l.raised # "" THEN l
  ELSE IF r.raised # "" THEN r
  ELSE Grouped(Value(BinOp(op, l.frame, r.frame, r.u),
                     IF UsesSuffix(l.frame, r.frame) THEN r.u + 2 ELSE r.u))

GroupedNot(x) ==
  IF ~x.ok \/ x.raised # "" THEN x ELSE Grouped(Value(NotOp(x.frame), x.u))

GroupedMod(x, q) ==
  IF ~x.ok \/ x.raised # "" THEN x
  ELSE IF ModRaises(x.frame, q) # "" THEN Grouped(Raises(ModRaises(x.frame, q), x.u))
  ELSE Grouped(Value(ModOp(x.frame, q), x.u))

RECURSIVE GroupedValue(_, _, _)
RECURSIVE GroupedSplit(_, _, _, _, _)
RECURSIVE GroupedRight(_, _, _, _, _)
GroupedRight(op, toks, j, fl, l) ==
  GroupedBin(op, l, GroupedValue(SubSeq(toks, j + 1, Len(toks)), l.u, fl))

GroupedSplit(op, toks, j, u, fl) ==
  GroupedRight(op, toks, j, fl, GroupedValue(SubSeq(toks, 1, j - 1), u, fl))

GroupedValue(toks, u, fl) ==
  IF toks = << >> THEN Malformed
  ELSE IF LastKeyword(toks, "or") > 0
    THEN GroupedSplit("or", toks, LastKeyword(toks, "or"), u, fl)
  ELSE IF LastKeyword(toks, "and") > 0
    THEN GroupedSplit("and", toks, LastKeyword(toks, "and"), u, fl)
  ELSE IF IsKeyword(toks[1], "not") THEN GroupedNot(GroupedValue(Tail(toks), u, fl))
  ELSE IF Len(toks) > 1 /\ toks[Len(toks)].k = "modifier"
    THEN GroupedMod(GroupedValue(SubSeq(toks, 1, Len(toks) - 1), u, fl), toks[Len(toks)].q)
  ELSE IF Len(toks) = 1 /\ IsGene(toks[1])
    THEN Grouped(Value(get_tf_data(toks[1].s, fl), u))
  ELSE Malformed

\* the outcome of parse_query when get_tf evaluates the grouping g
Expected(g) ==
  IF g.raised # "" THEN [raised |-> TRUE, msg |-> g.raised, frame |-> FallbackFrame]
  ELSE parse_query(g.frame)

SameOutcome(o, e) == o.raised = e.raised /\ o.msg = e.msg /\ o.frame = e.frame

\* C25: the evaluator groups by modifier > NOT > AND > OR and evaluates
\* chains of one operator left to right, the keywords in either case: the
\* outcome of parse_query for a text is that of the grouping of the text
C25_Precedence ==
  (outcome.called /\ GroupedValue(text, 0, tf_filter_list).ok) =>
    /\ parsed.ok
    /\ SameOutcome(outcome, Expected(GroupedValue(text, 0, tf_filter_list)))

\* `a OR b and c` (or with AND) where `(a or b) and c` has other rows than
\* `a or (b and c)`
C25_Witness ==
  /\ outcome.called /\ ~outcome.raised
  /\ Len(text) = 5
  /\ IsGene(text[1]) /\ IsKeyword(text[2], "or") /\ IsGene(text[3])
  /\ IsKeyword(text[4], "and") /\ IsGene(text[5])
  /\ "AND" \in {text[2].s, text[4].s} \/ "OR" \in {text[2].s, text[4].s}
  /\ outcome.frame.rows #
       BinOp("and",
             BinOp("or", get_tf_data(text[1].s, tf_filter_list),
                   get_tf_data(text[3].s, tf_filter_list), 0),
             get_tf_data(text[5].s, tf_filter_list), 2).rows


(***************************************************************************)
(* The table of a bare-gene fetch against the records of the database.     *)
(***************************************************************************)
\* the interactions get_tf_data reads for the query under tf_filter_list
FetchedInteractions(query) ==
  {i \in Interaction :
     /\ Upper(AnalysisTF[i[2]]) = Upper(query)
     /\ \/ ~tf_filter_list.given
        \/ \E t \in tf_filter_list.names : Upper(t) = Upper(query)}

\* the analysis has regulation records
HasRegulation(an) == \E r \in Regulation : r.analysis = an

\* the EDGE cell of an interaction: '+' without regulation records, absent with
EdgeMarked(df, query, i) ==
  LET c == Col(Label(query), i[2], "EDGE")
  IN IF HasRegulation(i[2])
     THEN ~NotNa(df, i[1], c)
     ELSE /\ i[1] \in df.rows
          /\ c \in df.cols
          /\ NotNa(df, i[1], c)
          /\ df.cell[<<i[1], c>>] = Plus

EdgeMarkers(df, query) ==
  \A i \in FetchedInteractions(query) : EdgeMarked(df, query, i)

\* every row has a cell that is not missing
RowsHaveCell(df) == \A r \in df.rows : \E c \in df.cols : NotNa(df, r, c)

\* the frame the last step fetched, and its query
Fetched == last.op = "leaf" /\ stack # << >>

\* C26 (first half): in a bare-gene fetch every recorded (target, analysis)
\* interaction has EDGE '+' when the analysis has no regulation records and
\* no EDGE when it has
C26_EdgeMarkers ==
  Fetched => EdgeMarkers(Top(stack), Top(stack).filter_string[1])

\* C26: in a bare-gene fetch the EDGE markers follow the regulation records
\* of the analysis, and every row of the fetched table has at least one
\* non-missing cell
C26_FetchedRows ==
  Fetched => /\ EdgeMarkers(Top(stack), Top(stack).filter_string[1])
             /\ RowsHaveCell(Top(stack))


\* C27: get_mod never modifies the table it is evaluated against: when it has
\* returned, df has the rows, columns, cells, include flag and filter_string
\* it had at the call
C27_GetModKeepsFrame ==
  mpc = "returned" => heap[1] = mbefore

\* a call has returned the mask of an expression with an operator, masks were
\* written to (a cell is False), and df is a table with cells
C27_Witness ==
  /\ mpc = "returned"
  /\ Len(heap) >= 4
  /\ DOMAIN mbefore.cell # {}
  /\ \E i \in 2 .. Len(heap) : \E p \in DOMAIN heap[i].cell : heap[i].cell[p] = False
  /\ TrueCells(heap[Top(mstack)]) # {}


\* a call with a query returned, and the call with cache_path alone was made
CalledTwice == qres.called /\ ~qres.raised /\ cached.called

SameResult ==
  /\ ~cached.raised
  /\ cached.rows = qres.rows
  /\ cached.frame = qres.frame
  /\ cached.user_lists = qres.user_lists
  /\ cached.metadata = meta.metadata
  /\ cached.stats = meta.stats

\* C28: after a successful get_query_result with a query, user lists and
\* cache_path, the call with the same cache_path alone returns the same table
\* (rows, row order, User List and User List Count), metadata and stats
C28_CacheRepeatable == CalledTwice => SameResult

\* the same for the calls without user lists
C28_RepeatableWithoutLists ==
  CalledTwice /\ ~qres.user_lists.given => SameResult


\* C29: of the requests that call cache_view for one cache path at the same
\* time, every one gets the complete value of func: none reads a file another
\* is still writing, none fails
C29_ConcurrentCacheView ==
  \A r \in Requests : cview[r] = "done" => cgot[r] = "value"



\* the number of the names of name_to_gene whose set has the gene
ListsWith(ul, g) ==
  Cardinality({n \in Range(ul.name_to_gene.keys) : g \in ul.name_to_gene.val[n]})

CountsLists(ul) ==
  \A g \in DOMAIN ul.df.count : ul.df.count[g] = ListsWith(ul, g)

\* the counts of get_gene_lists and of network_to_lists
C30_ReadLists == glists.called => CountsLists(glists)

\* the counts of merge_network_lists when no user list has the name of the
\* network
C30_MergedOtherName ==
  /\ gmerged.called
  /\ gmerged.name_to_gene.keys[1] \notin Range(glists.name_to_gene.keys)
  => CountsLists(gmerged)

\* C30: in the tables of get_gene_lists, network_to_lists and
\* merge_network_lists the User List Count of a gene is the number of
\* distinct list names of name_to_gene whose gene set has the gene, also when
\* the network and a user list have the same name
C30_UserListCount ==
  /\ glists.called => CountsLists(glists)
  /\ gmerged.called => CountsLists(gmerged)

====
